---------------------------- MODULE Spec2Model ----------------------------
(***************************************************************************)
(* A model of the podman-swarm agent: the service discovery registry       *)
(* (package discovery), the persistent store and its anti-entropy sync     *)
(* (package storage), and the message hand-off between them                *)
(* (cmd/agent/main.go, package cluster).                                   *)
(*                                                                         *)
(* Time is in seconds since the agents started.  Every agent of a          *)
(* specification reads the same clock `now`; a snapshot a peer stamped     *)
(* with a clock that runs ahead is an input of the single-store            *)
(* specification.  Names (namespaces, services, pods, nodes) are           *)
(* Kubernetes names: they hold no '/' and no '.'.                          *)
(***************************************************************************)
EXTENDS Integers, Sequences, FiniteSets, Bags, TLC

VARIABLES
    now,        \* the clock, time.Now()
    running,    \* the agents that are up
    nodes,      \* nodes[n]: Cluster.nodes of agent n (name -> types.Node)
    registry,   \* registry[n]: ServiceRegistry.services of agent n
    nextSweep,  \* nextSweep[n]: when healthCheck's ticker fires next
    net,        \* payloads in flight: [to, data]
    store,      \* store[n]: the Storage of agent n (four maps and lastModified)
    disk,       \* disk[n]: state.json and state.json.tmp in agent n's data directory
    pc,         \* pc[n]: where agent n stands in persist (it holds Storage.mu)
    nextSync,   \* nextSync[n]: when StartPeriodicSync's ticker fires next
    wrote,      \* history: wrote[n][key] is the time and the object of agent n's
                \* last SaveDeployment of key, where a specification records it
    tm,         \* tm[n]: the TokenManager of agent n (secret and tokens)
    encryptor,  \* encryptor[n]: the key of Cluster.encryptor of agent n
    keyFile,    \* keyFile[n]: encryption.key in agent n's data directory
    config,     \* config[n]: the config.Config agent n was started with
    whitelist,  \* whitelist[n]: Server.whitelist of agent n's DNS server
    reply,      \* reply[n]: the last exchange of agent n's DNS server
    api,        \* api[n]: the API server of agent n with its Scheduler and the
                \* containers of its podman socket
    atm,        \* atm[n]: the APITokenManager of agent n
    issued,     \* history: issued[n][token] is the expiry GenerateToken of
                \* agent n's APITokenManager last returned the token with,
                \* while no RevokeToken has succeeded on it and no
                \* CleanupExpiredTokens has run after its expiry
    mu,         \* mu[n]: the sync.RWMutex of agent n's Storage and the one of
                \* its IngressController
    calls       \* calls[n][g]: the call goroutine g of agent n is in, where a
                \* specification follows calls step by step

\* The security and DNS state of the agents
agentVars == <<tm, encryptor, keyFile, config, whitelist, reply>>

\* The API server state of the agents
apiVars == <<api, atm, issued, mu, calls>>

\* The locks and the goroutines of the agents
goVars == <<mu, calls>>

vars == <<now, running, nodes, registry, nextSweep, net, store, disk, pc, nextSync, wrote,
          agentVars, apiVars>>

\* What the registry operations leave alone
storeVars == <<store, disk, pc, nextSync, wrote, agentVars, apiVars>>

\* What the store operations leave alone
registryVars == <<registry, nextSweep, net, nextSync, agentVars, apiVars>>

-----------------------------------------------------------------------------
(* Bounds of the model *)

\* The clock stops advancing here.
MaxTime == 40

\* The clock advances in steps of this many seconds in the registry specification.
RegistrySteps == {5}

\* The agents of the store specifications start at this second; second 0 is
\* the zero time.Time of a store nothing has modified.
StartTime == 1

\* The clock of the single-store specifications stops advancing here.
MaxStoreTime == 3

\* The clock of the two-agent specifications advances in steps of this many
\* seconds, up to MaxClusterTime; SaveDeployment is called up to WriteUntil.
ClusterSteps == {10}

MaxClusterTime == 91

\* The clock of the two-registry specification stops advancing here.
MaxDiscoveryTime == 51

WriteUntil == 21

-----------------------------------------------------------------------------
(* Program constants *)

\* time.Since(endpoint.LastSeen) < 30*time.Second
FreshSeconds == 30
\* now.Sub(endpoint.LastSeen) > 30*time.Second
StaleSeconds == 30
\* time.NewTicker(10 * time.Second)
SweepSeconds == 10
\* storageInstance.StartPeriodicSync(30*time.Second, ...)
SyncSeconds == 30

Nodes == {"node-1", "node-2"}

NodeAddress(name) == IF name = "node-1" THEN "10.0.0.1" ELSE "10.0.0.2"

\* --bind-addr as the README passes it: the node's IP and the gossip port
BindAddr(name) == NodeAddress(name) \o ":7946"

\* types.Node as NotifyJoin builds it from node.Addr.String()
Node(name) ==
    [Name |-> name, Address |-> NodeAddress(name), Status |-> "Ready", Labels |-> << >>]

\* types.Node as NewCluster builds it for the local node, after
\* memberlist.Create: its Address is cfg.BindAddr
LocalNode(name) == [Node(name) EXCEPT !.Address = BindAddr(name)]

\* The roster of agent n once the members have joined
Roster(n, members) == [x \in members |-> IF x = n THEN LocalNode(x) ELSE Node(x)]

\* types.Service: the fields the registry reads
ServiceObjs ==
    { [Name |-> "web", Namespace |-> "default", Ports |-> <<[Port |-> 80]>>],
      [Name |-> "db",  Namespace |-> "default", Ports |-> << >>] }

\* types.Pod: the fields the registry and the store read
PodRecords ==
    { [ID |-> "p1", Name |-> "web-0", Namespace |-> "default",
       NodeName |-> "node-1", CreatedAt |-> 1],
      [ID |-> "p2", Name |-> "web-1", Namespace |-> "default",
       NodeName |-> "node-2", CreatedAt |-> 1],
      [ID |-> "p3", Name |-> "web-0", Namespace |-> "default",
       NodeName |-> "node-2", CreatedAt |-> 2],
      [ID |-> "p4", Name |-> "web-0", Namespace |-> "default",
       NodeName |-> "node-1", CreatedAt |-> 2] }

\* The pods the registry specifications register
PodObjs == {p \in PodRecords : p.ID \in {"p1", "p2"}}

\* The pod records the store specifications save: three records of one key
StorePodObjs == {p \in PodRecords : p.Name = "web-0"}

\* types.Deployment: two versions of default/web, one of default/api
DeploymentObjs ==
    { [Name |-> "web", Namespace |-> "default", DesiredReplicas |-> 1],
      [Name |-> "web", Namespace |-> "default", DesiredReplicas |-> 2],
      [Name |-> "web", Namespace |-> "prod", DesiredReplicas |-> 1] }

\* The version of default/web that only a peer's API server is given
PeerDeployment == [Name |-> "web", Namespace |-> "default", DesiredReplicas |-> 3]

\* types.Ingress
IngressObjs ==
    { [Name |-> "site", Namespace |-> "default", Rules |-> <<[Host |-> "example.com"]>>] }

-----------------------------------------------------------------------------
(* Maps: a Go map is a function whose domain is its key set *)

EmptyMap == << >>

MapPut(m, k, v) == [x \in DOMAIN m \cup {k} |-> IF x = k THEN v ELSE m[x]]

MapDelete(m, k) == [x \in DOMAIN m \ {k} |-> m[x]]

-----------------------------------------------------------------------------
(* Goroutines and sync.RWMutex.  A writer first takes the writer side
   (from then on RLock blocks) and then waits until no reader is left. *)

Goroutines == {"g1", "g2"}

\* A goroutine that is in no call: the last call it made, what that call
\* was given and what it read or returned
NoCall == [op |-> "", pc |-> "idle", arg |-> << >>, got |-> << >>, seen |-> {}]

\* The zero sync.RWMutex: w is the goroutine that holds or awaits the write
\* lock, readers[g] the read locks goroutine g holds
NewRWMutex == [w |-> "", readers |-> [g \in Goroutines |-> 0]]

\* RLock returns at once: no writer holds or awaits the lock
CanRLock(m) == m.w = ""

RLock(m, g) == [m EXCEPT !.readers[g] = @ + 1]

RUnlock(m, g) == [m EXCEPT !.readers[g] = @ - 1]

\* Lock up to its wait for the readers: it takes the writer side
CanAwaitLock(m) == m.w = ""

AwaitLock(m, g) == [m EXCEPT !.w = g]

\* Lock returns: the readers have left
CanLock(m, g) == m.w = g /\ \A r \in Goroutines : m.readers[r] = 0

Unlock(m) == [m EXCEPT !.w = ""]

\* Storage.mu and IngressController.mu of an agent that has just started
NoLocks == [storage |-> NewRWMutex, ingress |-> NewRWMutex]

-----------------------------------------------------------------------------
(* package discovery *)

serviceKey(serviceName, namespace) == serviceName \o "." \o namespace

endpointID(namespace, serviceName, podID) ==
    namespace \o "-" \o serviceName \o "-" \o podID

\* fmt.Sprintf("%s:%d", endpoint.Address, endpoint.Port)
FormatAddress(endpoint) == endpoint.Address \o ":" \o ToString(endpoint.Port)

\* The JSON document broadcastServiceUpdate marshals
ServiceUpdateMessage(endpoint, action, t) ==
    [type        |-> "service_update",
     action      |-> action,
     serviceName |-> endpoint.ServiceName,
     namespace   |-> endpoint.Namespace,
     podID       |-> endpoint.PodID,
     podName     |-> endpoint.PodName,
     nodeName    |-> endpoint.NodeName,
     address     |-> endpoint.Address,
     port        |-> endpoint.Port,
     healthy     |-> endpoint.Healthy,
     timestamp   |-> t]

\* Cluster.Broadcast: one best-effort copy to every other member
Broadcast(n, data) == {[to |-> m, data |-> data] : m \in DOMAIN nodes[n] \ {n}}

\* d.registry.services[key][endpointID] = endpoint
PutEndpoint(services, key, id, endpoint) ==
    MapPut(services, key,
           MapPut(IF key \in DOMAIN services THEN services[key] ELSE EmptyMap,
                  id, endpoint))

\* delete(endpoints, endpointID); if len(endpoints) == 0 { delete(services, key) }
DeleteEndpoint(services, key, id) ==
    IF key \notin DOMAIN services THEN services
    ELSE LET endpoints == MapDelete(services[key], id)
         IN  IF DOMAIN endpoints = {} THEN MapDelete(services, key)
             ELSE MapPut(services, key, endpoints)

\* The endpoint RegisterService builds
NewEndpoint(n, service, pod) ==
    [ServiceName |-> service.Name,
     Namespace   |-> service.Namespace,
     PodID       |-> pod.ID,
     PodName     |-> pod.Name,
     NodeName    |-> pod.NodeName,
     Address     |-> IF pod.NodeName \in DOMAIN nodes[n]
                     THEN nodes[n][pod.NodeName].Address
                     ELSE pod.NodeName,
     Port        |-> IF Len(service.Ports) > 0 THEN service.Ports[1].Port ELSE 0,
     Healthy     |-> TRUE,
     LastSeen    |-> now]

RegisterService(n, service, pod) ==
    LET key      == serviceKey(service.Name, service.Namespace)
        id       == endpointID(service.Namespace, service.Name, pod.ID)
        endpoint == NewEndpoint(n, service, pod)
    IN  /\ n \in running
        /\ registry' = [registry EXCEPT ![n] = PutEndpoint(@, key, id, endpoint)]
        /\ net' = net \cup Broadcast(n, ServiceUpdateMessage(endpoint, "register", now))
        /\ UNCHANGED <<now, running, nodes, nextSweep, storeVars>>

DeregisterService(n, service, pod) ==
    LET key == serviceKey(service.Name, service.Namespace)
        id  == endpointID(service.Namespace, service.Name, pod.ID)
        known == key \in DOMAIN registry[n] /\ id \in DOMAIN registry[n][key]
    IN  /\ n \in running
        /\ IF known
           THEN /\ net' = net \cup Broadcast(n,
                      ServiceUpdateMessage(registry[n][key][id], "deregister", now))
                /\ registry' = [registry EXCEPT ![n] = DeleteEndpoint(@, key, id)]
           ELSE UNCHANGED <<registry, net>>
        /\ UNCHANGED <<now, running, nodes, nextSweep, storeVars>>

\* A read path that trusts the Healthy flag alone
IsFreshNoAge(endpoint) == endpoint.Healthy

\* for _, endpoint := range endpoints { if endpoint.Healthy && time.Since(...) < 30s }
IsFresh(endpoint) ==
    endpoint.Healthy /\ now - endpoint.LastSeen < FreshSeconds

\* GetServiceEndpoints: the ids of the endpoints it returns (it returns the
\* stored records themselves), and whether it returns an error
GetServiceEndpoints(n, serviceName, namespace) ==
    LET key == serviceKey(serviceName, namespace)
    IN  IF key \notin DOMAIN registry[n]
        THEN [err |-> "not found", result |-> {}]
        ELSE [err |-> "",
              result |-> {id \in DOMAIN registry[n][key] : IsFresh(registry[n][key][id])}]

\* GetServiceAddresses: the bag of "address:port" strings it returns (map
\* iteration order is unspecified), and its error
GetServiceAddresses(n, serviceName, namespace) ==
    LET key == serviceKey(serviceName, namespace)
        endpoints == IF key \in DOMAIN registry[n] THEN registry[n][key] ELSE EmptyMap
        kept == {id \in DOMAIN endpoints :
                    endpoints[id].Healthy
                    /\ now - endpoints[id].LastSeen < FreshSeconds}
        strs == {FormatAddress(endpoints[id]) : id \in kept}
        addresses == [s \in strs |->
                        Cardinality({id \in kept : FormatAddress(endpoints[id]) = s})]
    IN  IF key \notin DOMAIN registry[n]
        THEN [err |-> "not found", addresses |-> EmptyBag]
        ELSE IF kept = {}
        THEN [err |-> "no healthy instances", addresses |-> EmptyBag]
        ELSE [err |-> "", addresses |-> addresses]

\* ListServices: key -> ids of the endpoints listed under it
ListServices(n) ==
    LET healthyEndpoints(key) ==
            {id \in DOMAIN registry[n][key] : IsFresh(registry[n][key][id])}
        keys == {key \in DOMAIN registry[n] : healthyEndpoints(key) # {}}
    IN  [key \in keys |-> healthyEndpoints(key)]

\* HandleServiceUpdate on a decoded service_update document, as a function of
\* the services map
ApplyServiceUpdate(services, update, t) ==
    LET key == serviceKey(update.serviceName, update.namespace)
        id  == endpointID(update.namespace, update.serviceName, update.podID)
        endpoint == [ServiceName |-> update.serviceName,
                     Namespace   |-> update.namespace,
                     PodID       |-> update.podID,
                     PodName     |-> update.podName,
                     NodeName    |-> update.nodeName,
                     Address     |-> update.address,
                     Port        |-> update.port,
                     Healthy     |-> update.healthy,
                     LastSeen    |-> t]
    IN  IF update.type # "service_update" THEN services
        ELSE IF update.action = "register" THEN PutEndpoint(services, key, id, endpoint)
        ELSE IF update.action = "deregister" THEN DeleteEndpoint(services, key, id)
        ELSE services

\* One pass of healthCheck's loop body over a services map
Sweep(services, t) ==
    [key \in DOMAIN services |->
        [id \in DOMAIN services[key] |->
            IF t - services[key][id].LastSeen > StaleSeconds
            THEN [services[key][id] EXCEPT !.Healthy = FALSE]
            ELSE services[key][id]]]

healthCheck(n) ==
    /\ n \in running
    /\ now >= nextSweep[n]
    /\ registry' = [registry EXCEPT ![n] = Sweep(@, now)]
    /\ nextSweep' = [nextSweep EXCEPT ![n] = @ + SweepSeconds]
    /\ UNCHANGED <<now, running, nodes, net, storeVars>>

-----------------------------------------------------------------------------
(* package storage *)

\* fmt.Sprintf("%s/%s", namespace, name)
StoreKey(namespace, name) == namespace \o "/" \o name

\* NewStorage before Load: four empty maps, the zero time
EmptyStore ==
    [deployments |-> EmptyMap, services |-> EmptyMap, ingresses |-> EmptyMap,
     pods |-> EmptyMap, lastModified |-> 0]

\* The ClusterState that persist, GetState and Backup build from the store
ClusterStateOf(s) ==
    [Deployments |-> s.deployments, Services |-> s.services,
     Ingresses |-> s.ingresses, Pods |-> s.pods,
     LastModified |-> s.lastModified, Version |-> 1]

GetState(n) == ClusterStateOf(store[n])

\* encoding/json on a map: an object is its set of members
JSONObject(m) == {<<k, m[k]>> : k \in DOMAIN m}

\* encoding/json into a map: the member of each key
FromJSONObject(o) ==
    [k \in {member[1] : member \in o} |-> (CHOOSE member \in o : member[1] = k)[2]]

\* json.MarshalIndent(state): the document under ClusterState's json tags
MarshalState(state) ==
    [deployments   |-> JSONObject(state.Deployments),
     services      |-> JSONObject(state.Services),
     ingresses     |-> JSONObject(state.Ingresses),
     pods          |-> JSONObject(state.Pods),
     last_modified |-> state.LastModified,
     version       |-> state.Version]

\* json.Unmarshal(data, &state)
UnmarshalState(doc) ==
    [Deployments  |-> FromJSONObject(doc.deployments),
     Services     |-> FromJSONObject(doc.services),
     Ingresses    |-> FromJSONObject(doc.ingresses),
     Pods         |-> FromJSONObject(doc.pods),
     LastModified |-> doc.last_modified,
     Version      |-> doc.version]

\* A file of the data directory: absent, or its bytes; `complete` tells a
\* whole document from a prefix of one (which does not parse)
NoFile == [exists |-> FALSE, complete |-> FALSE, data |-> MarshalState(ClusterStateOf(EmptyStore))]

WholeFile(doc) == [exists |-> TRUE, complete |-> TRUE, data |-> doc]

PartFile(doc) == [exists |-> TRUE, complete |-> FALSE, data |-> doc]

EmptyDir == [state |-> NoFile, tmp |-> NoFile]

\* A write that goes to state.json itself
WriteStatePart(d, doc) == [d EXCEPT !.state = PartFile(doc)]

\* os.WriteFile(tmpFile, data, 0640), interrupted after it has truncated the
\* file and written some of the bytes
WriteTmpPart(d, doc) == [d EXCEPT !.tmp = PartFile(doc)]

\* os.WriteFile(tmpFile, data, 0640), done
WriteTmp(d, doc) == [d EXCEPT !.tmp = WholeFile(doc)]

\* os.Rename(tmpFile, stateFile)
RenameTmp(d) == [d EXCEPT !.state = d.tmp, !.tmp = NoFile]

\* A persist that leaves the snapshot in state.json.tmp
persistNoRename(s, d) == WriteTmp(d, MarshalState(ClusterStateOf(s)))

\* persist, run to its end without an I/O error
persist(s, d) == RenameTmp(WriteTmp(d, MarshalState(ClusterStateOf(s))))

\* Load: the store NewStorage returns for a data directory.  A missing file
\* and a file that does not parse both leave the store empty.
Load(d) ==
    IF ~d.state.exists \/ ~d.state.complete THEN EmptyStore
    ELSE LET state == UnmarshalState(d.state.data)
         IN  [deployments  |-> state.Deployments,
              services     |-> state.Services,
              ingresses    |-> state.Ingresses,
              pods         |-> state.Pods,
              lastModified |-> state.LastModified]

\* A save that keys the entry by its name alone
PutByName(s, kind, obj, t) ==
    [s EXCEPT ![kind] = MapPut(@, obj.Name, obj), !.lastModified = t]

\* s.<kind>[key] = obj; s.lastModified = time.Now()
Put(s, kind, obj, t) ==
    [s EXCEPT ![kind] = MapPut(@, StoreKey(obj.Namespace, obj.Name), obj),
              !.lastModified = t]

\* delete(s.<kind>, key); s.lastModified = time.Now()
Remove(s, kind, namespace, name, t) ==
    [s EXCEPT ![kind] = MapDelete(@, StoreKey(namespace, name)),
              !.lastModified = t]

\* Get<Kind>: the entry, or a not-found error
Get(s, kind, namespace, name) ==
    LET key == StoreKey(namespace, name)
    IN  IF key \in DOMAIN s[kind]
        THEN [err |-> "", value |-> {s[kind][key]}]
        ELSE [err |-> "not found", value |-> {}]

GetDeployment(s, namespace, name) == Get(s, "deployments", namespace, name)
GetService(s, namespace, name) == Get(s, "services", namespace, name)
GetIngress(s, namespace, name) == Get(s, "ingresses", namespace, name)
GetPod(s, namespace, name) == Get(s, "pods", namespace, name)

\* List<Kind>: the entries, in no order
ListDeployments(s) == {s.deployments[k] : k \in DOMAIN s.deployments}
ListStoredServices(s) == {s.services[k] : k \in DOMAIN s.services}
ListIngresses(s) == {s.ingresses[k] : k \in DOMAIN s.ingresses}
ListPods(s) == {s.pods[k] : k \in DOMAIN s.pods}

\* for key, x := range incoming { local[key] = x }
Overwrite(local, incoming) ==
    [k \in DOMAIN local \cup DOMAIN incoming |->
        IF k \in DOMAIN incoming THEN incoming[k] ELSE local[k]]

\* A pod merge in which the incoming record also wins a tie
MergePodsTieToIncoming(local, incoming) ==
    [k \in DOMAIN local \cup DOMAIN incoming |->
        IF k \in DOMAIN incoming
           /\ (k \notin DOMAIN local \/ incoming[k].CreatedAt >= local[k].CreatedAt)
        THEN incoming[k] ELSE local[k]]

\* if existing, ok := s.pods[key]; !ok || pod.CreatedAt > existing.CreatedAt
MergePods(local, incoming) ==
    [k \in DOMAIN local \cup DOMAIN incoming |->
        IF k \in DOMAIN incoming
           /\ (k \notin DOMAIN local \/ incoming[k].CreatedAt > local[k].CreatedAt)
        THEN incoming[k] ELSE local[k]]

\* MergeState: the store it leaves in memory and the data directory it
\* leaves on disk (it persists only when it merged)
MergeState(s, d, incomingState, t) ==
    IF incomingState.LastModified > s.lastModified
    THEN LET merged ==
                 [deployments  |-> Overwrite(s.deployments, incomingState.Deployments),
                  services     |-> Overwrite(s.services, incomingState.Services),
                  ingresses    |-> Overwrite(s.ingresses, incomingState.Ingresses),
                  pods         |-> MergePods(s.pods, incomingState.Pods),
                  lastModified |-> t]
         IN  [store |-> merged, disk |-> persist(merged, d)]
    ELSE [store |-> s, disk |-> d]

\* The state_sync document BroadcastState marshals; State is a pointer, here
\* the set of what it points to
StateSyncMessage(state, t, nodeName) ==
    [type |-> "state_sync", state |-> {MarshalState(state)},
     timestamp |-> t, node_name |-> nodeName]

\* The state_request document RequestState marshals
StateRequestMessage(t, nodeName) ==
    [type |-> "state_request", state |-> {}, timestamp |-> t, node_name |-> nodeName]

\* A mutator from taking the lock to its return, persist included (the
\* history it leaves is the caller's to state)
Commit(n, s2) ==
    /\ n \in running
    /\ pc[n] = "idle"
    /\ store' = [store EXCEPT ![n] = s2]
    /\ disk' = [disk EXCEPT ![n] = persist(s2, @)]
    /\ UNCHANGED <<now, running, nodes, registryVars, pc>>

SaveDeployment(n, deployment) ==
    Commit(n, Put(store[n], "deployments", deployment, now)) /\ UNCHANGED wrote
SaveService(n, service) ==
    Commit(n, Put(store[n], "services", service, now)) /\ UNCHANGED wrote
SaveIngress(n, ingress) ==
    Commit(n, Put(store[n], "ingresses", ingress, now)) /\ UNCHANGED wrote
SavePod(n, pod) ==
    Commit(n, Put(store[n], "pods", pod, now)) /\ UNCHANGED wrote

DeleteDeployment(n, namespace, name) ==
    Commit(n, Remove(store[n], "deployments", namespace, name, now)) /\ UNCHANGED wrote
DeleteService(n, namespace, name) ==
    Commit(n, Remove(store[n], "services", namespace, name, now)) /\ UNCHANGED wrote
DeleteIngress(n, namespace, name) ==
    Commit(n, Remove(store[n], "ingresses", namespace, name, now)) /\ UNCHANGED wrote
DeletePod(n, namespace, name) ==
    Commit(n, Remove(store[n], "pods", namespace, name, now)) /\ UNCHANGED wrote

\* HandleStateSyncMessage: MergeState on a state_sync that carries a state;
\* a state_request, and any other type, is dropped
HandleStateSyncMessage(n, msg) ==
    /\ n \in running
    /\ pc[n] = "idle"
    /\ IF msg.type = "state_sync" /\ msg.state # {}
       THEN LET incomingState == UnmarshalState(CHOOSE doc \in msg.state : TRUE)
                merged == MergeState(store[n], disk[n], incomingState, now)
            IN  /\ store' = [store EXCEPT ![n] = merged.store]
                /\ disk' = [disk EXCEPT ![n] = merged.disk]
       ELSE UNCHANGED <<store, disk>>
    /\ UNCHANGED <<now, running, nodes, registryVars, wrote, pc>>

\* NewStorage on the data directory of an agent that is down
NewStorage(n) ==
    /\ n \notin running
    /\ running' = running \cup {n}
    /\ store' = [store EXCEPT ![n] = Load(disk[n])]
    /\ pc' = [pc EXCEPT ![n] = "idle"]
    /\ UNCHANGED <<now, nodes, registryVars, wrote, disk>>

\* The agent stops (a signal, a kill): what it held in memory is gone
Stop(n) ==
    /\ n \in running
    /\ running' = running \ {n}
    /\ store' = [store EXCEPT ![n] = EmptyStore]
    /\ pc' = [pc EXCEPT ![n] = "down"]
    /\ UNCHANGED <<now, nodes, registryVars, wrote, disk>>

-----------------------------------------------------------------------------
(* cmd/agent/main.go: the single receive hook *)

\* The service_update documents a peer's broadcastServiceUpdate can send: a
\* register carries healthy = true, a deregister the flag the peer held
PeerUpdates ==
    { ServiceUpdateMessage(
          [ServiceName |-> s.Name, Namespace |-> s.Namespace, PodID |-> p.ID,
           PodName |-> p.Name, NodeName |-> p.NodeName,
           Address |-> NodeAddress(p.NodeName),
           Port |-> IF Len(s.Ports) > 0 THEN s.Ports[1].Port ELSE 0,
           Healthy |-> ah[2]],
          ah[1], now)
      : s \in ServiceObjs, p \in {q \in PodObjs : q.NodeName = "node-2"},
        ah \in {<<"register", TRUE>>, <<"deregister", TRUE>>, <<"deregister", FALSE>>} }

\* delegate.NotifyMsg with the handler main.go installs, for a payload that
\* arrives from outside the modelled agents
ReceiveUpdate(n, msg) ==
    /\ n \in running
    /\ registry' = [registry EXCEPT ![n] = ApplyServiceUpdate(@, msg, now)]
    /\ UNCHANGED <<now, running, nodes, nextSweep, net, storeVars>>

-----------------------------------------------------------------------------
(* The clock *)

\* No ticker of a running agent is overdue when the clock advances.
Tick(d) ==
    /\ now + d <= MaxTime
    /\ \A n \in running : now + d <= nextSweep[n]
    /\ now' = now + d
    /\ UNCHANGED <<running, nodes, registry, nextSweep, net, storeVars>>

-----------------------------------------------------------------------------
(* package security: join tokens.  A Go string and a []byte are both a
   sequence of bytes (0..255); a token such as "AQID" is the sequence of the
   ASCII codes of its characters. *)

\* The length of a generated secret, token and encryption key
KeyLength == 32

\* What rand.Read may fill a buffer of KeyLength bytes with
RandomBytes == {[i \in 1..KeyLength |-> v] : v \in {17, 202}}

\* encoding/base64: the URL alphabet and its padding character
EncodeURL(i) ==
    IF i < 26 THEN 65 + i
    ELSE IF i < 52 THEN 97 + (i - 26)
    ELSE IF i < 62 THEN 48 + (i - 52)
    ELSE IF i = 62 THEN 45 ELSE 95

StdPadding == 61

\* base64.URLEncoding.EncodeToString
RECURSIVE EncodeToString(_)
EncodeToString(src) ==
    IF Len(src) = 0 THEN << >>
    ELSE IF Len(src) = 1
    THEN <<EncodeURL(src[1] \div 4), EncodeURL((src[1] % 4) * 16), StdPadding, StdPadding>>
    ELSE IF Len(src) = 2
    THEN <<EncodeURL(src[1] \div 4),
           EncodeURL((src[1] % 4) * 16 + src[2] \div 16),
           EncodeURL((src[2] % 16) * 4), StdPadding>>
    ELSE <<EncodeURL(src[1] \div 4),
           EncodeURL((src[1] % 4) * 16 + src[2] \div 16),
           EncodeURL((src[2] % 16) * 4 + src[3] \div 64),
           EncodeURL(src[3] % 64)>> \o EncodeToString(SubSeq(src, 4, Len(src)))

\* The decode map of the URL alphabet: -1 for a byte outside it
DecodeURL(c) ==
    IF \E i \in 0..63 : EncodeURL(i) = c THEN CHOOSE i \in 0..63 : EncodeURL(i) = c ELSE -1

\* base64.URLEncoding.DecodeString: padded input only, in quanta of four
\* characters, padding in the last quantum only
RECURSIVE DecodeString(_)
DecodeString(s) ==
    IF Len(s) = 0 THEN [err |-> FALSE, bytes |-> << >>]
    ELSE IF Len(s) < 4 THEN [err |-> TRUE, bytes |-> << >>]
    ELSE LET d == [i \in 1..4 |-> DecodeURL(s[i])]
             last == Len(s) = 4
             rest == DecodeString(SubSeq(s, 5, Len(s)))
         IN  IF d[1] < 0 \/ d[2] < 0 THEN [err |-> TRUE, bytes |-> << >>]
             ELSE IF last /\ s[3] = StdPadding /\ s[4] = StdPadding
             THEN [err |-> FALSE, bytes |-> <<d[1] * 4 + d[2] \div 16>>]
             ELSE IF d[3] < 0 THEN [err |-> TRUE, bytes |-> << >>]
             ELSE IF last /\ s[4] = StdPadding
             THEN [err |-> FALSE,
                   bytes |-> <<d[1] * 4 + d[2] \div 16, (d[2] % 16) * 16 + d[3] \div 4>>]
             ELSE IF d[4] < 0 \/ rest.err THEN [err |-> TRUE, bytes |-> << >>]
             ELSE [err |-> FALSE,
                   bytes |-> <<d[1] * 4 + d[2] \div 16,
                               (d[2] % 16) * 16 + d[3] \div 4,
                               (d[3] % 4) * 64 + d[4]>> \o rest.bytes]

\* hex.EncodeToString(sha256.Sum256(data)): SHA-256 is taken to be free of
\* collisions, so a digest is told apart by the data it was computed from
Sum256Hex(data) == <<"sha256", data>>

\* security.NewTokenManager with the secret it ends up holding: the one
\* given, or KeyLength random bytes where none is given
TokenManager(secret) == [secret |-> secret, tokens |-> EmptyMap]

NewTokenManager(secret) ==
    IF Len(secret) = 0 THEN {TokenManager(r) : r \in RandomBytes}
    ELSE {TokenManager(secret)}

\* TokenManager.GenerateToken, tokenBytes being what rand.Read returned:
\* the token and the manager that holds it
GenerateToken(m, tokenBytes, t) ==
    LET token == EncodeToString(tokenBytes)
    IN  [token |-> token,
         tm |-> [m EXCEPT !.tokens =
                    MapPut(@, token, [Value |-> token,
                                      Hash |-> Sum256Hex(m.secret \o tokenBytes),
                                      CreatedAt |-> t])]]

\* TokenManager.ValidateToken; no Token is ever given an ExpiresAt
ValidateToken(m, token) ==
    IF token \notin DOMAIN m.tokens
    THEN LET decoded == DecodeString(token)
         IN  IF decoded.err THEN FALSE
             ELSE IF \E k \in DOMAIN m.tokens :
                        m.tokens[k].Hash = Sum256Hex(m.secret \o decoded.bytes)
             THEN TRUE
             ELSE DOMAIN m.tokens = {}
    ELSE TRUE

\* TokenManager.RevokeToken
RevokeToken(m, token) == [m EXCEPT !.tokens = MapDelete(@, token)]

\* TokenManager.ListTokens
ListTokens(m) == DOMAIN m.tokens

-----------------------------------------------------------------------------
(* package dns.  A DNS name is a Go string the server takes apart character
   by character: it is a sequence of characters here, and Text turns the
   labels it yields into the strings the registry is keyed by. *)

UpperLetters ==
    <<"A", "B", "C", "D", "E", "F", "G", "H", "I", "J", "K", "L", "M",
      "N", "O", "P", "Q", "R", "S", "T", "U", "V", "W", "X", "Y", "Z">>

LowerLetters ==
    <<"a", "b", "c", "d", "e", "f", "g", "h", "i", "j", "k", "l", "m",
      "n", "o", "p", "q", "r", "s", "t", "u", "v", "w", "x", "y", "z">>

\* strings.ToLower
ToLower(s) ==
    [i \in DOMAIN s |->
        IF \E k \in DOMAIN UpperLetters : UpperLetters[k] = s[i]
        THEN LowerLetters[CHOOSE k \in DOMAIN UpperLetters : UpperLetters[k] = s[i]]
        ELSE s[i]]

\* strings.HasSuffix, strings.TrimSuffix, strings.HasPrefix, strings.TrimPrefix
HasSuffix(s, suffix) ==
    Len(s) >= Len(suffix) /\ SubSeq(s, Len(s) - Len(suffix) + 1, Len(s)) = suffix

TrimSuffix(s, suffix) ==
    IF HasSuffix(s, suffix) THEN SubSeq(s, 1, Len(s) - Len(suffix)) ELSE s

HasPrefix(s, prefix) == Len(s) >= Len(prefix) /\ SubSeq(s, 1, Len(prefix)) = prefix

TrimPrefix(s, prefix) ==
    IF HasPrefix(s, prefix) THEN SubSeq(s, Len(prefix) + 1, Len(s)) ELSE s

\* strings.Split(s, "."), strings.Join(parts, ".")
RECURSIVE Split(_)
Split(s) ==
    IF \E i \in DOMAIN s : s[i] = "."
    THEN LET i == CHOOSE j \in DOMAIN s : s[j] = "." /\ \A k \in 1..(j - 1) : s[k] # "."
         IN  <<SubSeq(s, 1, i - 1)>> \o Split(SubSeq(s, i + 1, Len(s)))
    ELSE <<s>>

RECURSIVE Join(_)
Join(parts) ==
    IF Len(parts) = 0 THEN << >>
    ELSE IF Len(parts) = 1 THEN parts[1]
    ELSE parts[1] \o <<".">> \o Join(Tail(parts))

\* The string of a sequence of characters
RECURSIVE Text(_)
Text(s) == IF Len(s) = 0 THEN "" ELSE s[1] \o Text(Tail(s))

\* DefaultClusterDomain, "cluster.local"
clusterDomain == <<"c", "l", "u", "s", "t", "e", "r", ".", "l", "o", "c", "a", "l">>

\* A record's TTL
AnswerTTL == 60

\* NewServer's default upstream servers
upstreamDNS == <<"8.8.8.8:53", "8.8.4.4:53">>

\* dns.Question and dns.Msg as a query: the questions it carries
Question(name, qtype) == [Name |-> name, Qtype |-> qtype]

\* A message as the server writes or relays it; Answer and Extra are bags of
\* records (the order of the records of a reply follows a map's iteration),
\* Asked is the upstream servers the query went to, with what each returned
Msg(question, rcode, answer, extra, asked) ==
    [Question |-> question, Rcode |-> rcode, Answer |-> answer, Extra |-> extra,
     Asked |-> asked]

\* No query has been served yet
NoReply == Msg(<< >>, "none", EmptyBag, EmptyBag, << >>)

\* The text forms net.ParseIP reads as an IPv4 address, among the addresses
\* an endpoint may carry
IPv4Literals == {NodeAddress(n) : n \in Nodes} \cup {"0.0.0.0"}

\* dns.NewRR("<name> <ttl> IN A <address>"): the record, or none where the
\* address is no IPv4 literal
NewA(name, ttl, address) ==
    IF address \in IPv4Literals
    THEN {[Name |-> name, Rrtype |-> "A", Ttl |-> ttl, A |-> address]}
    ELSE {}

\* dns.NewRR("<name> <ttl> IN SRV <priority> <weight> <port> <target>")
NewSRV(name, ttl, priority, weight, port, target) ==
    [Name |-> name, Rrtype |-> "SRV", Ttl |-> ttl, Priority |-> priority,
     Weight |-> weight, Port |-> port, Target |-> target]

\* A CNAME record of an upstream's response
NewCNAME(name, target) == [Name |-> name, Rrtype |-> "CNAME", Target |-> target]

\* append to m.Answer, for each element of a sequence of sets of records
RECURSIVE Appended(_)
Appended(records) ==
    IF Len(records) = 0 THEN EmptyBag
    ELSE (IF records[1] = {} THEN EmptyBag ELSE SetToBag(records[1]))
             (+) Appended(Tail(records))

\* isClusterDomainQuery
isClusterDomainQuery(questions) ==
    \E i \in DOMAIN questions :
        LET name == ToLower(TrimSuffix(questions[i].Name, <<".">>))
        IN  HasSuffix(name, <<".">> \o clusterDomain) \/ name = clusterDomain

\* The name parseServiceName and parseSRVName go on with once they have cut
\* the cluster domain off
TrimClusterDomain(name) ==
    TrimSuffix(TrimSuffix(TrimSuffix(name, <<".">>), <<".">> \o clusterDomain),
               <<".", "s", "v", "c", ".">> \o clusterDomain)

\* parseServiceName
parseServiceName(name) ==
    LET parts == Split(TrimClusterDomain(name))
    IN  IF Len(parts) < 2
        THEN [err |-> TRUE, serviceName |-> "", namespace |-> ""]
        ELSE [err |-> FALSE,
              serviceName |-> Text(Join(SubSeq(parts, 1, Len(parts) - 1))),
              namespace |-> Text(parts[Len(parts)])]

\* parseSRVName
parseSRVName(name) ==
    LET parts == Split(TrimClusterDomain(name))
    IN  IF Len(parts) < 4 \/ ~HasPrefix(parts[1], <<"_">>) \/ ~HasPrefix(parts[2], <<"_">>)
        THEN [err |-> TRUE, portName |-> "", protocol |-> "",
              serviceName |-> "", namespace |-> ""]
        ELSE [err |-> FALSE,
              portName |-> Text(TrimPrefix(parts[1], <<"_">>)),
              protocol |-> Text(TrimPrefix(parts[2], <<"_">>)),
              serviceName |-> Text(Join(SubSeq(parts, 3, Len(parts) - 1))),
              namespace |-> Text(parts[Len(parts)])]

\* The orders in which a slice built from a map may hold the elements of S
Orderings(S) ==
    {order \in [1..Cardinality(S) -> S] :
        \A i, j \in 1..Cardinality(S) : order[i] = order[j] => i = j}

\* The slice GetServiceEndpoints returns, in one of its orders; none where it
\* returns an error
EndpointSlices(n, serviceName, namespace) ==
    LET got == GetServiceEndpoints(n, serviceName, namespace)
        endpoints == registry[n][serviceKey(serviceName, namespace)]
    IN  IF got.err # "" THEN {}
        ELSE {[i \in DOMAIN order |-> endpoints[order[i]]] : order \in Orderings(got.result)}

\* handleAQuery: what it appends to m.Answer, given the slice of endpoints
handleAQuery(q, endpoints) ==
    Appended([i \in DOMAIN endpoints |-> NewA(q.Name, AnswerTTL, endpoints[i].Address)])

\* handleSRVQuery: what it appends to m.Answer and to m.Extra
handleSRVQuery(q, parsed, endpoints) ==
    LET targetPort == IF Len(endpoints) > 0 THEN endpoints[1].Port ELSE 0
        target == parsed.serviceName \o "." \o parsed.namespace \o "."
                      \o Text(clusterDomain) \o "."
        priority(i) == IF i <= 2 THEN 10 ELSE 10 * (i - 1)
    IN  [Answer |-> Appended([i \in DOMAIN endpoints |->
                        {NewSRV(q.Name, AnswerTTL, priority(i), 10, targetPort, target)}]),
         Extra |-> Appended([i \in DOMAIN endpoints |->
                        NewA(target, AnswerTTL, endpoints[i].Address)])]

\* emptyAnswer
emptyAnswer(q) == [Name |-> q.Name, Rrtype |-> "A", Ttl |-> 0, A |-> "0.0.0.0"]

\* handleClusterQuery for one question: the sections it may add to the reply
AnswersTo(n, q) ==
    IF q.Qtype = "A"
    THEN LET parsed == parseServiceName(q.Name)
             slices == EndpointSlices(n, parsed.serviceName, parsed.namespace)
         IN  IF parsed.err \/ slices = {}
             THEN {[Answer |-> EmptyBag, Extra |-> EmptyBag]}
             ELSE {[Answer |-> handleAQuery(q, endpoints), Extra |-> EmptyBag]
                   : endpoints \in slices}
    ELSE IF q.Qtype = "SRV"
    THEN LET parsed == parseSRVName(q.Name)
             slices == EndpointSlices(n, parsed.serviceName, parsed.namespace)
         IN  IF parsed.err \/ slices = {}
             THEN {[Answer |-> EmptyBag, Extra |-> EmptyBag]}
             ELSE {handleSRVQuery(q, parsed, endpoints) : endpoints \in slices}
    ELSE {[Answer |-> SetToBag({emptyAnswer(q)}), Extra |-> EmptyBag]}

\* handleClusterQuery: the replies it may write
RECURSIVE ClusterSections(_, _)
ClusterSections(n, questions) ==
    IF Len(questions) = 0 THEN {[Answer |-> EmptyBag, Extra |-> EmptyBag]}
    ELSE {[Answer |-> first.Answer (+) rest.Answer, Extra |-> first.Extra (+) rest.Extra]
          : first \in AnswersTo(n, questions[1]),
            rest \in ClusterSections(n, Tail(questions))}

handleClusterQuery(n, r) ==
    {Msg(r.Question, "NOERROR", sections.Answer, sections.Extra, << >>)
     : sections \in ClusterSections(n, r.Question)}

\* SetWhitelist: the whitelist it leaves
SetWhitelistTo(enabled, hosts) ==
    [Enabled |-> enabled,
     Hosts |-> UNION {{ToLower(TrimSuffix(host, <<".">>)),
                       ToLower(TrimSuffix(host, <<".">>)) \o <<".">>} : host \in hosts}]

\* isWhitelistEnabled
isWhitelistEnabled(w) == w.Enabled

\* A whitelist check that compares the end of the name's text
isHostAllowedByText(w, queryName) ==
    \/ ~w.Enabled
    \/ \E host \in w.Hosts : HasSuffix(ToLower(TrimSuffix(queryName, <<".">>)), host)

\* isHostAllowed
isHostAllowed(w, queryName) ==
    LET normalized == ToLower(TrimSuffix(queryName, <<".">>))
        parts == Split(normalized)
    IN  \/ ~w.Enabled
        \/ normalized \in w.Hosts
        \/ normalized \o <<".">> \in w.Hosts
        \/ \E i \in 1..Len(parts) :
              LET domain == Join(SubSeq(parts, i, Len(parts)))
              IN  domain \in w.Hosts \/ domain \o <<".">> \in w.Hosts

\* extractCNAMETargets
extractCNAMETargets(resp) ==
    {ToLower(TrimSuffix(rr.Target, <<".">>))
     : rr \in {x \in BagToSet(resp.Answer) \cup BagToSet(resp.Extra) : x.Rrtype = "CNAME"}}

\* A check of the Answer section alone
validateAnswerCNAMEs(w, resp) ==
    \A rr \in BagToSet(resp.Answer) : rr.Rrtype = "CNAME" => isHostAllowed(w, rr.Target)

\* validateCNAMERecords
validateCNAMERecords(w, resp) ==
    /\ \A rr \in BagToSet(resp.Answer) : rr.Rrtype = "CNAME" => isHostAllowed(w, rr.Target)
    /\ \A rr \in BagToSet(resp.Extra) : rr.Rrtype = "CNAME" => isHostAllowed(w, rr.Target)
    /\ \A target \in extractCNAMETargets(resp) : isHostAllowed(w, target)

\* forwardQuery without the TCP retry
RECURSIVE TryUpstreamsUDPOnly(_, _, _, _, _)
TryUpstreamsUDPOnly(w, r, exchange, i, asked) ==
    IF i > Len(upstreamDNS) THEN Msg(r.Question, "SERVFAIL", EmptyBag, EmptyBag, asked)
    ELSE LET resp == exchange[upstreamDNS[i]].udp
             seen == Append(asked, [upstream |-> upstreamDNS[i], nets |-> <<"udp">>,
                                    resp |-> resp])
         IN  IF /\ ~resp.err
                /\ resp.Rcode = "NOERROR"
                /\ isWhitelistEnabled(w) => validateCNAMERecords(w, resp)
             THEN Msg(r.Question, resp.Rcode, resp.Answer, resp.Extra, seen)
             ELSE TryUpstreamsUDPOnly(w, r, exchange, i + 1, seen)

\* The loop of forwardQuery from upstream i on: exchange[u].udp is what
\* client.Exchange with upstream u ends with over UDP, exchange[u].tcp over
\* TCP; TCP is tried once the UDP exchange has returned an error. Asked
\* records, per upstream, the transports used and the response kept
RECURSIVE TryUpstreams(_, _, _, _, _)
TryUpstreams(w, r, exchange, i, asked) ==
    IF i > Len(upstreamDNS) THEN Msg(r.Question, "SERVFAIL", EmptyBag, EmptyBag, asked)
    ELSE LET udp == exchange[upstreamDNS[i]].udp
             resp == IF udp.err THEN exchange[upstreamDNS[i]].tcp ELSE udp
             seen == Append(asked, [upstream |-> upstreamDNS[i],
                                    nets |-> IF udp.err THEN <<"udp", "tcp">> ELSE <<"udp">>,
                                    resp |-> resp])
         IN  IF /\ ~resp.err
                /\ resp.Rcode = "NOERROR"
                /\ isWhitelistEnabled(w) => validateCNAMERecords(w, resp)
             THEN Msg(r.Question, resp.Rcode, resp.Answer, resp.Extra, seen)
             ELSE TryUpstreams(w, r, exchange, i + 1, seen)

\* forwardQuery
forwardQuery(w, r, exchange) ==
    LET queryName == IF Len(r.Question) > 0 THEN r.Question[1].Name ELSE << >>
    IN  IF isWhitelistEnabled(w) /\ ~isHostAllowed(w, queryName)
        THEN Msg(r.Question, "REFUSED", EmptyBag, EmptyBag, << >>)
        ELSE TryUpstreams(w, r, exchange, 1, << >>)

\* handleDNS: the replies it may write
handleDNS(n, r, exchange) ==
    IF isClusterDomainQuery(r.Question) THEN handleClusterQuery(n, r)
    ELSE {forwardQuery(whitelist[n], r, exchange)}

\* The DNS server of agent n serves a query
ServeDNS(n, r, exchange) ==
    /\ n \in running
    /\ \E m \in handleDNS(n, r, exchange) : reply' = [reply EXCEPT ![n] = m]
    /\ UNCHANGED <<now, running, nodes, registry, nextSweep, net, store, disk, pc,
                   nextSync, wrote, tm, encryptor, keyFile, config, whitelist, apiVars>>

\* SetWhitelist on the DNS server of agent n
SetWhitelist(n, enabled, hosts) ==
    /\ n \in running
    /\ whitelist' = [whitelist EXCEPT ![n] = SetWhitelistTo(enabled, hosts)]
    /\ UNCHANGED <<now, running, nodes, registry, nextSweep, net, store, disk, pc,
                   nextSync, wrote, tm, encryptor, keyFile, config, reply, apiVars>>

-----------------------------------------------------------------------------
(* package security: API tokens.  ExpiresAt is a *time.Time: the empty set
   is nil, {t} an expiry at second t. *)

\* &APITokenManager{tokens: ..., hashes: ..., secret: secret}
APITokenManager(secret) == [secret |-> secret, tokens |-> EmptyMap, hashes |-> EmptyMap]

\* NewAPITokenManager: the managers it may return (a random secret where
\* none is given)
NewAPITokenManager(secret) ==
    IF Len(secret) = 0 THEN {APITokenManager(s) : s \in RandomBytes}
    ELSE {APITokenManager(secret)}

\* APITokenManager.GenerateToken with the bytes rand.Read fills in
APIGenerateToken(m, name, expiresAt, tokenBytes, t) ==
    LET token == EncodeToString(tokenBytes)
        hashStr == Sum256Hex(m.secret \o tokenBytes)
        apiToken == [Token |-> token, Hash |-> hashStr, Name |-> name,
                     CreatedAt |-> t, ExpiresAt |-> expiresAt]
    IN  [token |-> token,
         tm |-> [m EXCEPT !.tokens = MapPut(@, token, apiToken),
                          !.hashes = MapPut(@, hashStr, token)]]

\* t.ExpiresAt != nil && now.After(*t.ExpiresAt)
Expired(expiresAt, t) == \E e \in expiresAt : t > e

\* A validation that does not look at the expiry
APIValidateTokenNoExpiry(m, token, t) == token \in DOMAIN m.tokens

\* APITokenManager.ValidateToken
APIValidateToken(m, token, t) ==
    /\ token \in DOMAIN m.tokens
    /\ ~Expired(m.tokens[token].ExpiresAt, t)

\* APITokenManager.RevokeToken: its error and the manager it leaves
APIRevokeToken(m, token) ==
    IF token \notin DOMAIN m.tokens THEN [err |-> "token not found", tm |-> m]
    ELSE [err |-> "",
          tm |-> [m EXCEPT !.hashes = MapDelete(@, m.tokens[token].Hash),
                           !.tokens = MapDelete(@, token)]]

\* APITokenManager.ListTokens: the listed records, the token masked
APIListTokens(m) ==
    LET masked(token) == [m.tokens[token] EXCEPT !.Token = "***"]
        listed == {masked(token) : token \in DOMAIN m.tokens}
    IN  [x \in listed |-> Cardinality({token \in DOMAIN m.tokens : masked(token) = x})]

\* APITokenManager.CleanupExpiredTokens
CleanupExpiredTokens(m, t) ==
    LET gone == {token \in DOMAIN m.tokens : Expired(m.tokens[token].ExpiresAt, t)}
    IN  [m EXCEPT !.tokens = [token \in DOMAIN m.tokens \ gone |-> m.tokens[token]],
                  !.hashes = [h \in DOMAIN m.hashes \ {m.tokens[token].Hash : token \in gone}
                                |-> m.hashes[h]]]

\* GenerateToken on the manager of agent n
APIIssue(n, name, expiresAt, tokenBytes) ==
    LET got == APIGenerateToken(atm[n], name, expiresAt, tokenBytes, now)
    IN  /\ n \in running
        /\ atm' = [atm EXCEPT ![n] = got.tm]
        /\ issued' = [issued EXCEPT ![n] = MapPut(@, got.token, expiresAt)]
        /\ UNCHANGED <<now, running, nodes, registry, nextSweep, net, store, disk, pc,
                       nextSync, wrote, agentVars, api, goVars>>

\* RevokeToken on the manager of agent n
APIRevoke(n, token) ==
    LET got == APIRevokeToken(atm[n], token)
    IN  /\ n \in running
        /\ atm' = [atm EXCEPT ![n] = got.tm]
        /\ issued' = [issued EXCEPT ![n] =
                        IF got.err = "" THEN MapDelete(issued[n], token) ELSE issued[n]]
        /\ UNCHANGED <<now, running, nodes, registry, nextSweep, net, store, disk, pc,
                       nextSync, wrote, agentVars, api, goVars>>

\* CleanupExpiredTokens on the manager of agent n
APICleanup(n) ==
    /\ n \in running
    /\ atm' = [atm EXCEPT ![n] = CleanupExpiredTokens(@, now)]
    /\ issued' = [issued EXCEPT ![n] =
                    [token \in {x \in DOMAIN issued[n] : \A e \in issued[n][x] : now <= e}
                        |-> issued[n][token]]]
    /\ UNCHANGED <<now, running, nodes, registry, nextSweep, net, store, disk, pc,
                   nextSync, wrote, agentVars, api, goVars>>

-----------------------------------------------------------------------------
(* package api, with package scheduler, package parser and the podman
   socket.  A *types.Pod is a reference into the heap of the process: the pod
   list of a Deployment and the map of the Scheduler hold the same pod
   objects, so an assignment to a field of one is seen through the other.
   The k-th value generateID draws is generateID(k), the id podman gives the
   container of the k-th pod object is ContainerID(k): random ids never
   repeat. *)

generateID(k) == "id-" \o ToString(k)

ContainerID(k) == "ctr-" \o ToString(k)

\* NewAPI, NewScheduler and the podman socket of a host with no containers.
\* pods is Scheduler.pods; rules is IngressController.rules; made counts the
\* pod objects built so far; recovered tells whether RecoverDeployments ran;
\* roundRobinIdx and proxies are the maps of the IngressController
NewAPI ==
    [deployments |-> EmptyMap, services |-> EmptyMap, ingresses |-> EmptyMap,
     pods |-> EmptyMap, heap |-> EmptyMap, rules |-> EmptyMap,
     containers |-> EmptyMap, made |-> 0, recovered |-> FALSE,
     roundRobinIdx |-> EmptyMap, proxies |-> EmptyMap]

\* The API server of a process that starts on a host: its containers are
\* still there
StartedAPI(a) == [NewAPI EXCEPT !.containers = a.containers, !.made = a.made]

\* Parser.ParseDeployment
ParseDeployment(deployment) ==
    [Name            |-> deployment.Name,
     Namespace       |-> deployment.Namespace,
     Replicas        |-> deployment.Replicas,
     DesiredReplicas |-> deployment.Replicas,
     Template        |-> deployment.Template,
     Pods            |-> << >>]

\* Parser.ParseService
ParseService(service) ==
    [Name      |-> service.Name,
     Namespace |-> service.Namespace,
     Selector  |-> service.Selector,
     Ports     |-> service.Ports]

\* Parser.ParseIngress
ParseIngress(ingress) ==
    [Name |-> ingress.Name, Namespace |-> ingress.Namespace, Rules |-> ingress.Rules]

\* Parser.ExtractPodFromTemplate
ExtractPodFromTemplate(template, namespace, podName) ==
    [ID           |-> "",
     Name         |-> podName,
     Namespace    |-> namespace,
     NodeName     |-> "",
     State        |-> "Pending",
     Labels       |-> template.Labels,
     NodeSelector |-> template.NodeSelector,
     CreatedAt    |-> 0]

\* labels[key] of a Go map: the empty string where the key is missing
LabelOf(labels, key) == IF key \in DOMAIN labels THEN labels[key] ELSE ""

\* matchesSelector
matchesSelector(labels, selector) ==
    \A key \in DOMAIN selector : LabelOf(labels, key) = selector[key]

\* findNodeBySelector: the nodes it may return (the first match in the
\* iteration order of GetNodes), none for its error
findNodeBySelector(roster, selector) ==
    {name \in DOMAIN roster :
        \A key \in DOMAIN selector : LabelOf(roster[name].Labels, key) = selector[key]}

\* The nodes SchedulePod may choose for a pod
Candidates(roster, selector) ==
    IF DOMAIN selector # {} THEN findNodeBySelector(roster, selector) ELSE DOMAIN roster

\* Scheduler.SchedulePod on the pod object ref; pick is the node the
\* iteration order, or rand.Intn, selects among the candidates
SchedulePod(a, roster, ref, pick) ==
    LET pod == a.heap[ref]
    IN  IF Candidates(roster, pod.NodeSelector) = {}
        THEN [err |-> IF DOMAIN pod.NodeSelector # {} THEN "no node matches selector"
                      ELSE "no nodes available",
              nodeName |-> "", a |-> a]
        ELSE [err |-> "", nodeName |-> pick,
              a |-> [a EXCEPT !.heap[ref].NodeName = pick,
                              !.pods = MapPut(a.pods, pod.ID, ref)]]

\* Scheduler.GetPod: the pod found, or none
SchedulerGetPod(a, podID) ==
    IF podID \in DOMAIN a.pods THEN {a.heap[a.pods[podID]]} ELSE {}

\* Scheduler.GetAllPods: the pod objects, and the pods they are
AllPodRefs(a) == {a.pods[k] : k \in DOMAIN a.pods}

GetAllPods(a) == {a.heap[ref] : ref \in AllPodRefs(a)}

\* Scheduler.RemovePod
RemovePod(a, podID) == [a EXCEPT !.pods = MapDelete(a.pods, podID)]

\* Scheduler.UpdatePodState (its error is dropped by its callers)
UpdatePodState(a, podID, state) ==
    IF podID \in DOMAIN a.pods
    THEN [a EXCEPT !.heap[a.pods[podID]].State = state]
    ELSE a

\* podman.Client.GetPodStatus from the status containers.Inspect reports
GetPodStatus(a, containerID) ==
    IF containerID \notin DOMAIN a.containers THEN "Unknown"
    ELSE LET status == a.containers[containerID]
         IN  IF status = "running" THEN "Running"
             ELSE IF status = "exited" THEN "Failed"
             ELSE IF status = "created" THEN "Pending"
             ELSE "Unknown"

\* StopPod and RemovePod of podman.Client, their errors dropped
RemoveContainer(a, containerID) ==
    [a EXCEPT !.containers = MapDelete(a.containers, containerID)]

\* The body of the replica loop of applyDeployment and of RecoverDeployments
\* up to its first error: the pod object ref is built, scheduled and, on the
\* local node, created and started.  outcome is what the runtime does with
\* the container: "create fails", "start fails", or the status Inspect
\* reports once it has started ("running", "exited")
CreateReplica(a, roster, local, dep, i, pick, outcome, t) ==
    LET ref == a.made + 1
        podName == dep.Name \o "-" \o ToString(i)
        pod == [ExtractPodFromTemplate(dep.Template, dep.Namespace, podName)
                    EXCEPT !.ID = generateID(ref), !.CreatedAt = t]
        a1 == [a EXCEPT !.made = ref, !.heap = MapPut(a.heap, ref, pod)]
        scheduled == SchedulePod(a1, roster, ref, pick)
        containerID == ContainerID(ref)
        created == [scheduled.a EXCEPT !.heap[ref].ID = containerID,
                                       !.containers = MapPut(scheduled.a.containers,
                                                             containerID, "created")]
        started == [created EXCEPT !.containers[containerID] = outcome]
    IN  IF scheduled.err # ""
        THEN [err |-> "failed to schedule pod", a |-> a1, ref |-> ref]
        ELSE IF scheduled.nodeName # local
        THEN [err |-> "", a |-> scheduled.a, ref |-> ref]
        ELSE IF outcome = "create fails"
        THEN [err |-> "failed to create pod", a |-> scheduled.a, ref |-> ref]
        ELSE IF outcome = "start fails"
        THEN [err |-> "failed to start pod", a |-> created, ref |-> ref]
        ELSE [err |-> "",
              a |-> UpdatePodState(started, containerID, GetPodStatus(started, containerID)),
              ref |-> ref]

\* The replica loop of applyDeployment from replica i on: the first error
\* ends it
RECURSIVE ApplyReplicas(_, _, _, _, _, _, _, _)
ApplyReplicas(a, roster, local, key, i, picks, runtime, t) ==
    LET dep == a.deployments[key]
        step == CreateReplica(a, roster, local, dep, i, picks[i], runtime[i], t)
    IN  IF i >= dep.DesiredReplicas THEN [err |-> "", a |-> a]
        ELSE IF step.err # "" THEN [err |-> step.err, a |-> step.a]
        ELSE ApplyReplicas([step.a EXCEPT !.deployments[key].Pods = Append(dep.Pods, step.ref)],
                           roster, local, key, i + 1, picks, runtime, t)

\* applyDeployment: its error and the API server it leaves
applyDeployment(a, roster, local, deployment, picks, runtime, t) ==
    LET dep == ParseDeployment(deployment)
        key == StoreKey(dep.Namespace, dep.Name)
    IN  ApplyReplicas([a EXCEPT !.deployments = MapPut(a.deployments, key, dep)],
                      roster, local, key, 0, picks, runtime, t)

\* The loop of applyService and of RecoverDeployments over the pods that
\* match: the services map RegisterService leaves, one pod after the other
RECURSIVE RegisterEach(_, _, _, _)
RegisterEach(n, services, service, pods) ==
    IF pods = {} THEN services
    ELSE LET pod == CHOOSE p \in pods : TRUE
         IN  RegisterEach(n,
                 PutEndpoint(services, serviceKey(service.Name, service.Namespace),
                             endpointID(service.Namespace, service.Name, pod.ID),
                             NewEndpoint(n, service, pod)),
                 service, pods \ {pod})

\* The service_update copies those RegisterService calls broadcast
RegisterUpdates(n, service, pods) ==
    UNION {Broadcast(n, ServiceUpdateMessage(NewEndpoint(n, service, pod), "register", now))
           : pod \in pods}

\* The loop of DeleteManifest over the pods that match: DeregisterService,
\* one pod after the other
RECURSIVE DeregisterEach(_, _, _)
DeregisterEach(services, service, pods) ==
    IF pods = {} THEN services
    ELSE LET pod == CHOOSE p \in pods : TRUE
         IN  DeregisterEach(
                 DeleteEndpoint(services, serviceKey(service.Name, service.Namespace),
                                endpointID(service.Namespace, service.Name, pod.ID)),
                 service, pods \ {pod})

\* The service_update copies those DeregisterService calls broadcast
DeregisterUpdates(n, services, service, pods) ==
    LET key == serviceKey(service.Name, service.Namespace)
        ids == {endpointID(service.Namespace, service.Name, pod.ID) : pod \in pods}
        known == IF key \in DOMAIN services THEN ids \cap DOMAIN services[key] ELSE {}
    IN  UNION {Broadcast(n, ServiceUpdateMessage(services[key][id], "deregister", now))
               : id \in known}

\* The picks name a candidate node for every replica
PicksAllowed(roster, deployment, picks) ==
    LET candidates == Candidates(roster, deployment.Template.NodeSelector)
    IN  \A i \in DOMAIN picks : candidates # {} => picks[i] \in candidates

\* ApplyManifest on a manifest that holds one Deployment
ApplyDeployment(n, deployment, picks, runtime) ==
    /\ n \in running
    /\ PicksAllowed(nodes[n], deployment, picks)
    /\ api' = [api EXCEPT ![n] =
                 applyDeployment(api[n], nodes[n], n, deployment, picks, runtime, now).a]
    /\ UNCHANGED <<now, running, nodes, registry, nextSweep, net, store, disk, pc,
                   nextSync, wrote, agentVars, atm, issued, goVars>>

\* applyService: the pods it registers
ServicePods(a, service) == {pod \in GetAllPods(a) : matchesSelector(pod.Labels, service.Selector)}

\* ApplyManifest on a manifest that holds one Service
ApplyService(n, service) ==
    LET svc == ParseService(service)
        key == StoreKey(svc.Namespace, svc.Name)
        pods == ServicePods(api[n], svc)
    IN  /\ n \in running
        /\ api' = [api EXCEPT ![n].services = MapPut(api[n].services, key, svc)]
        /\ registry' = [registry EXCEPT ![n] = RegisterEach(n, registry[n], svc, pods)]
        /\ net' = net \cup RegisterUpdates(n, svc, pods)
        /\ UNCHANGED <<now, running, nodes, nextSweep, store, disk, pc, nextSync, wrote,
                       agentVars, atm, issued, goVars>>

\* ApplyManifest on a manifest that holds one Ingress
ApplyIngress(n, ingress) ==
    LET ing == ParseIngress(ingress)
        key == StoreKey(ing.Namespace, ing.Name)
    IN  /\ n \in running
        /\ api' = [api EXCEPT ![n].ingresses = MapPut(api[n].ingresses, key, ing),
                              ![n].rules = MapPut(api[n].rules, key, ing)]
        /\ UNCHANGED <<now, running, nodes, registry, nextSweep, net, store, disk, pc,
                       nextSync, wrote, agentVars, atm, issued, goVars>>

\* The loop of DeleteManifest over dep.Pods from the k-th pod on
RECURSIVE DeletePods(_, _, _, _)
DeletePods(a, local, refs, k) ==
    IF k > Len(refs) THEN a
    ELSE LET pod == a.heap[refs[k]]
             stopped == IF pod.NodeName = local THEN RemoveContainer(a, pod.ID) ELSE a
         IN  DeletePods(RemovePod(stopped, pod.ID), local, refs, k + 1)

\* DeleteManifest up to the end of its Deployment branch
deleteDeployment(a, local, key) ==
    IF key \in DOMAIN a.deployments
    THEN [DeletePods(a, local, a.deployments[key].Pods, 1)
             EXCEPT !.deployments = MapDelete(a.deployments, key)]
    ELSE a

\* DeleteManifest
DeleteManifest(n, namespace, name) ==
    LET key == StoreKey(namespace, name)
        a1 == deleteDeployment(api[n], n, key)
        known == key \in DOMAIN a1.services
        pods == IF known THEN ServicePods(a1, a1.services[key]) ELSE {}
    IN  /\ n \in running
        /\ api' = [api EXCEPT ![n] =
                     [a1 EXCEPT !.services = MapDelete(a1.services, key),
                                !.ingresses = MapDelete(a1.ingresses, key),
                                !.rules = MapDelete(a1.rules, key)]]
        /\ IF known
           THEN /\ registry' = [registry EXCEPT ![n] =
                                  DeregisterEach(registry[n], a1.services[key], pods)]
                /\ net' = net \cup DeregisterUpdates(n, registry[n], a1.services[key], pods)
           ELSE UNCHANGED <<registry, net>>
        /\ UNCHANGED <<now, running, nodes, nextSweep, store, disk, pc, nextSync, wrote,
                       agentVars, atm, issued, goVars>>

\* The replica loop of RecoverDeployments from replica i on: an error skips
\* the replica.  pods is dep.Pods so far
RECURSIVE RecoverReplicas(_, _, _, _, _, _, _, _, _)
RecoverReplicas(a, roster, local, dep, i, picks, runtime, t, pods) ==
    LET step == CreateReplica(a, roster, local, dep, i, picks[i], runtime[i], t)
    IN  IF i >= dep.DesiredReplicas THEN [a |-> a, pods |-> pods]
        ELSE RecoverReplicas(step.a, roster, local, dep, i + 1, picks, runtime, t,
                             IF step.err # "" THEN pods ELSE Append(pods, step.ref))

\* A Deployment as encoding/json writes it: its pods by value
StoredDeployment(a, dep, pods) ==
    [dep EXCEPT !.Pods = [j \in DOMAIN pods |-> a.heap[pods[j]]]]

\* The loop of RecoverDeployments over storage.ListDeployments(): the API
\* server and the store it leaves
RECURSIVE RecoverEach(_, _, _, _, _, _, _, _)
RecoverEach(a, s, roster, local, deps, picks, runtime, t) ==
    IF deps = {} THEN [a |-> a, store |-> s]
    ELSE LET dep == CHOOSE x \in deps : TRUE
             key == StoreKey(dep.Namespace, dep.Name)
             done == RecoverReplicas(a, roster, local, dep, 0, picks, runtime, t, << >>)
             a2 == [done.a EXCEPT !.deployments =
                        MapPut(done.a.deployments, key, [dep EXCEPT !.Pods = done.pods])]
         IN  RecoverEach(a2, Put(s, "deployments", StoredDeployment(a2, dep, done.pods), t),
                         roster, local, deps \ {dep}, picks, runtime, t)

\* The loop of RecoverDeployments over storage.ListServices(): the services
\* map of the registry it leaves
RECURSIVE RecoverServices(_, _, _, _)
RecoverServices(n, services, a, svcs) ==
    IF svcs = {} THEN services
    ELSE LET svc == CHOOSE x \in svcs : TRUE
         IN  RecoverServices(n, RegisterEach(n, services, svc, ServicePods(a, svc)),
                             a, svcs \ {svc})

\* RecoverDeployments, which StartStateRecovery runs once after the start
RecoverDeployments(n, picks, runtime) ==
    LET deps == ListDeployments(store[n])
        svcs == ListStoredServices(store[n])
        done == RecoverEach(api[n], store[n], nodes[n], n, deps, picks, runtime, now)
    IN  /\ n \in running
        /\ pc[n] = "idle"
        /\ ~api[n].recovered
        /\ \A dep \in deps : PicksAllowed(nodes[n], dep, picks)
        /\ api' = [api EXCEPT ![n] =
                     [done.a EXCEPT !.recovered = TRUE,
                                    !.services = [key \in DOMAIN done.a.services
                                                          \cup DOMAIN store[n].services |->
                                                    IF key \in DOMAIN store[n].services
                                                    THEN store[n].services[key]
                                                    ELSE done.a.services[key]]]]
        /\ store' = [store EXCEPT ![n] = done.store]
        /\ disk' = [disk EXCEPT ![n] = IF deps = {} THEN disk[n] ELSE persist(done.store, disk[n])]
        /\ registry' = [registry EXCEPT ![n] = RecoverServices(n, registry[n], done.a, svcs)]
        /\ net' = net \cup UNION {RegisterUpdates(n, svc, ServicePods(done.a, svc)) : svc \in svcs}
        /\ UNCHANGED <<now, running, nodes, nextSweep, pc, nextSync, wrote, agentVars,
                       atm, issued, goVars>>

\* Cluster.UpdateNodeLabels on agent n
UpdateNodeLabels(n, nodeName, labels) ==
    /\ n \in running
    /\ nodes' = [nodes EXCEPT ![n] =
                   IF nodeName \in DOMAIN nodes[n]
                   THEN [nodes[n] EXCEPT ![nodeName].Labels = labels]
                   ELSE nodes[n]]
    /\ UNCHANGED <<now, running, registry, nextSweep, net, store, disk, pc, nextSync,
                   wrote, agentVars, apiVars>>

\* security.NewEncryptor: the key the Encryptor holds
NewEncryptor(key) == IF Len(key) # KeyLength THEN <<"sha256", key>> ELSE key

\* The nonces io.ReadFull(rand.Reader, nonce) may produce
Nonces == {"nonce-1", "nonce-2"}

\* aesGCM.Seal(nonce, nonce, plaintext, nil): the nonce, then the ciphertext
\* with its tag.  AES-GCM is taken to be authentic: the box opens under the
\* key and the nonce that sealed it, and only while no byte of it is altered.
Seal(key, nonce, plaintext) ==
    [short |-> FALSE, nonce |-> nonce,
     box |-> [key |-> key, nonce |-> nonce, plaintext |-> plaintext, altered |-> FALSE]]

\* Encryptor.Encrypt: the frames it may return
Encrypt(key, plaintext) == {Seal(key, nonce, plaintext) : nonce \in Nonces}

\* A cipher that returns the plaintext of a box whatever its tag says
DecryptUnauthenticated(key, ciphertext) ==
    [err |-> FALSE, plaintext |-> ciphertext.box.plaintext]

\* Encryptor.Decrypt
Decrypt(key, ciphertext) ==
    IF ciphertext.short THEN [err |-> TRUE, plaintext |-> << >>]
    ELSE IF /\ ciphertext.box.key = key
            /\ ciphertext.box.nonce = ciphertext.nonce
            /\ ~ciphertext.box.altered
    THEN [err |-> FALSE, plaintext |-> ciphertext.box.plaintext]
    ELSE [err |-> TRUE, plaintext |-> << >>]

\* The handler main.go installs: HandleServiceUpdate, then
\* HandleStateSyncMessage
HandleMessage(n, msg) ==
    LET merged == IF msg.type = "state_sync" /\ msg.state # {}
                  THEN MergeState(store[n], disk[n],
                                  UnmarshalState(CHOOSE doc \in msg.state : TRUE), now)
                  ELSE [store |-> store[n], disk |-> disk[n]]
    IN  [handled |-> TRUE,
         registry |-> ApplyServiceUpdate(registry[n], msg, now),
         store |-> merged.store,
         disk |-> merged.disk]

\* delegate.NotifyMsg on a frame: whether the handler ran and what the agent
\* holds afterwards
Delivered(n, frame) ==
    IF encryptor[n] # << >>
    THEN LET decrypted == Decrypt(encryptor[n], frame)
         IN  IF decrypted.err
             THEN [handled |-> FALSE, registry |-> registry[n],
                   store |-> store[n], disk |-> disk[n]]
             ELSE HandleMessage(n, decrypted.plaintext)
    ELSE HandleMessage(n, frame)

\* delegate.NotifyMsg, called by memberlist with a frame that has arrived
NotifyMsgFrame(m) ==
    LET n == m.to
        after == Delivered(n, m.data)
    IN  /\ m \in net
        /\ n \in running
        /\ pc[n] = "idle"
        /\ net' = net \ {m}
        /\ registry' = [registry EXCEPT ![n] = after.registry]
        /\ store' = [store EXCEPT ![n] = after.store]
        /\ disk' = [disk EXCEPT ![n] = after.disk]
        /\ UNCHANGED <<now, running, nodes, nextSweep, pc, nextSync, wrote, agentVars, apiVars>>

\* encryption.key in a data directory
NoKeyFile == [exists |-> FALSE, data |-> << >>]

KeyFileOf(data) == [exists |-> TRUE, data |-> data]

\* make([]byte, 32)
ZeroBytes == [i \in 1..KeyLength |-> 0]

\* config.Config: the fields main.go reads when it prepares the cluster
Config(joinAddrs, joinToken, encryptionKey) ==
    [JoinAddrs |-> joinAddrs, JoinToken |-> joinToken, EncryptionKey |-> encryptionKey]

\* main.go, "Prepare encryption key": the key handed to NewCluster and
\* encryption.key as it is left
PrepareEncryptionKey(cfg, file) ==
    IF Len(cfg.EncryptionKey) # 0
    THEN [key |-> cfg.EncryptionKey, file |-> file]
    ELSE IF cfg.JoinAddrs # {} /\ Len(cfg.JoinToken) # 0
    THEN [key |-> cfg.JoinToken, file |-> file]
    ELSE IF file.exists
    THEN [key |-> IF Len(file.data) >= KeyLength THEN SubSeq(file.data, 1, KeyLength)
                  ELSE ZeroBytes,
          file |-> file]
    ELSE [key |-> ZeroBytes, file |-> KeyFileOf(ZeroBytes)]

\* main.go up to NewCluster: the token managers the agent may end up with
\* (the first node generates a join token)
PrepareTokenManager(cfg, t) ==
    IF cfg.JoinAddrs = {} /\ Len(cfg.JoinToken) = 0
    THEN {GenerateToken(m, b, t).tm : m \in NewTokenManager(cfg.EncryptionKey),
                                      b \in RandomBytes}
    ELSE NewTokenManager(cfg.EncryptionKey)

\* NewCluster's check of the join token, made with the token manager the
\* joining agent has just built
JoinRefused(cfg, m) ==
    /\ cfg.JoinAddrs # {}
    /\ Len(cfg.JoinToken) # 0
    /\ ~ValidateToken(m, cfg.JoinToken)

\* delegate.NotifyJoin
NotifyJoin(roster, name) == MapPut(roster, name, Node(name))

\* delegate.NotifyLeave on agent s once memberlist has found n gone
NotifyLeave(s, n) ==
    /\ s \in running
    /\ n \notin running
    /\ n \in DOMAIN nodes[s]
    /\ nodes' = [nodes EXCEPT ![s] = MapDelete(@, n)]
    /\ UNCHANGED <<now, running, registry, nextSweep, net, storeVars>>

\* main.go from the token manager to NewCluster.  list.Join reaches the seeds
\* that are up; memberlist, which is given no key, takes the joiner in and
\* calls NotifyJoin on both sides.  An agent NewCluster refuses exits.
Boot(n, cfg) ==
    /\ n \notin running
    /\ cfg.JoinAddrs \subseteq Nodes \ {n}
    /\ \E m \in PrepareTokenManager(cfg, now) :
          LET prepared == PrepareEncryptionKey(cfg, keyFile[n])
              seeds == cfg.JoinAddrs \cap running
          IN  /\ keyFile' = [keyFile EXCEPT ![n] = prepared.file]
              /\ IF JoinRefused(cfg, m)
                 THEN UNCHANGED <<running, nodes, tm, encryptor, config, store, pc>>
                 ELSE /\ running' = running \cup {n}
                      /\ config' = [config EXCEPT ![n] = cfg]
                      /\ tm' = [tm EXCEPT ![n] = m]
                      /\ encryptor' = [encryptor EXCEPT ![n] = NewEncryptor(prepared.key)]
                      /\ nodes' = [x \in Nodes |->
                                     IF x = n
                                     THEN Roster(n, seeds \cup {n})
                                     ELSE IF x \in seeds THEN NotifyJoin(nodes[x], n)
                                     ELSE nodes[x]]
                      /\ store' = [store EXCEPT ![n] = Load(disk[n])]
                      /\ pc' = [pc EXCEPT ![n] = "idle"]
    /\ UNCHANGED <<now, registry, nextSweep, net, disk, nextSync, wrote, whitelist, reply,
                   apiVars>>

\* Cluster.Shutdown and the end of the process
Shutdown(n) ==
    /\ n \in running
    /\ running' = running \ {n}
    /\ nodes' = [nodes EXCEPT ![n] = EmptyMap]
    /\ store' = [store EXCEPT ![n] = EmptyStore]
    /\ pc' = [pc EXCEPT ![n] = "down"]
    /\ tm' = [tm EXCEPT ![n] = TokenManager(<< >>)]
    /\ encryptor' = [encryptor EXCEPT ![n] = << >>]
    /\ config' = [config EXCEPT ![n] = Config({}, << >>, << >>)]
    /\ api' = [api EXCEPT ![n] = StartedAPI(api[n])]
    /\ registry' = [registry EXCEPT ![n] = EmptyMap]
    /\ atm' = [atm EXCEPT ![n] = APITokenManager(<< >>)]
    /\ issued' = [issued EXCEPT ![n] = EmptyMap]
    /\ mu' = [mu EXCEPT ![n] = NoLocks]
    /\ calls' = [calls EXCEPT ![n] = [g \in Goroutines |-> NoCall]]
    /\ UNCHANGED <<now, nextSweep, net, disk, nextSync, wrote, keyFile, whitelist, reply>>

\* TokenManager.GenerateToken on a running agent
IssueToken(n, tokenBytes) ==
    /\ n \in running
    /\ tm' = [tm EXCEPT ![n] = GenerateToken(@, tokenBytes, now).tm]
    /\ UNCHANGED <<now, running, nodes, registry, nextSweep, net, store, disk, pc,
                   nextSync, wrote, encryptor, keyFile, config, whitelist, reply, apiVars>>

\* TokenManager.RevokeToken on a running agent
Revoke(n, token) ==
    /\ n \in running
    /\ token \in ListTokens(tm[n])
    /\ tm' = [tm EXCEPT ![n] = RevokeToken(@, token)]
    /\ UNCHANGED <<now, running, nodes, registry, nextSweep, net, store, disk, pc,
                   nextSync, wrote, encryptor, keyFile, config, whitelist, reply, apiVars>>

\* NewAPI on a host with no containers, and NewAPITokenManager(encryptionKey)
InitAPI ==
    /\ api = [n \in Nodes |-> NewAPI]
    /\ atm = [n \in Nodes |-> APITokenManager(ZeroBytes)]
    /\ issued = [n \in Nodes |-> EmptyMap]
    /\ mu = [n \in Nodes |-> NoLocks]
    /\ calls = [n \in Nodes |-> [g \in Goroutines |-> NoCall]]

\* The agents as main.go leaves them when nothing is configured: node-1
\* started the cluster and the others joined it without a token
InitAgent ==
    /\ tm = [n \in Nodes |->
               LET m == TokenManager([i \in 1..KeyLength |-> 17])
               IN  IF n = "node-1"
                   THEN GenerateToken(m, [i \in 1..KeyLength |-> 202], 0).tm
                   ELSE m]
    /\ encryptor = [n \in Nodes |-> NewEncryptor(ZeroBytes)]
    /\ keyFile = [n \in Nodes |-> KeyFileOf(ZeroBytes)]
    /\ config = [n \in Nodes |->
                   Config(IF n = "node-1" THEN {} ELSE {"node-1"}, << >>, << >>)]
    /\ whitelist = [n \in Nodes |-> SetWhitelistTo(FALSE, {})]
    /\ reply = [n \in Nodes |-> NoReply]
    /\ InitAPI

-----------------------------------------------------------------------------
(* The registry of one agent: SpecRegistry *)

\* Every agent starts on an empty data directory
InitStorage ==
    /\ store = [n \in Nodes |-> EmptyStore]
    /\ disk = [n \in Nodes |-> EmptyDir]
    /\ pc = [n \in Nodes |-> IF n \in running THEN "idle" ELSE "down"]
    /\ nextSync = [n \in Nodes |-> now + SyncSeconds]
    /\ wrote = [n \in Nodes |-> EmptyMap]
    /\ InitAgent

InitRegistry ==
    /\ now = 0
    /\ running = {"node-1"}
    /\ nodes = [n \in Nodes |-> IF n = "node-1" THEN Roster(n, {"node-1"})
                                ELSE EmptyMap]
    /\ registry = [n \in Nodes |-> EmptyMap]
    /\ nextSweep = [n \in Nodes |-> SweepSeconds]
    /\ net = {}
    /\ InitStorage

NextRegistry ==
    \/ \E s \in ServiceObjs, p \in PodObjs : RegisterService("node-1", s, p)
    \/ \E s \in ServiceObjs, p \in PodObjs : DeregisterService("node-1", s, p)
    \/ \E msg \in PeerUpdates : ReceiveUpdate("node-1", msg)
    \/ healthCheck("node-1")
    \/ \E d \in RegistrySteps : Tick(d)

SpecRegistry == InitRegistry /\ [][NextRegistry]_vars

\* The endpoints agent n stores under a service key
StoredEndpoints(n, key) ==
    IF key \in DOMAIN registry[n] THEN registry[n][key] ELSE EmptyMap

\* healthy = true and now - last_seen <= 30 s
Eligible(endpoint) == endpoint.Healthy /\ now - endpoint.LastSeen <= 30

(* C1: in every reachable registry state, every endpoint that
   GetServiceEndpoints, GetServiceAddresses or ListServices returns has
   healthy = true and now - last_seen <= 30 s: each returned id is such an
   endpoint, each returned address string is returned no more often than
   there are such endpoints that format to it, and an endpoint last updated
   more than 30 s ago is in no result. *)
C1_ReturnedEndpointsAreFresh ==
    \A n \in running : \A s \in ServiceObjs :
        LET key == serviceKey(s.Name, s.Namespace)
            eps == StoredEndpoints(n, key)
            got == GetServiceEndpoints(n, s.Name, s.Namespace)
            adr == GetServiceAddresses(n, s.Name, s.Namespace).addresses
            lst == ListServices(n)
            listed == IF key \in DOMAIN lst THEN lst[key] ELSE {}
        IN  /\ got.result \subseteq DOMAIN eps
            /\ listed \subseteq DOMAIN eps
            /\ \A id \in got.result \cup listed : Eligible(eps[id])
            /\ \A a \in BagToSet(adr) :
                  CopiesIn(a, adr) <=
                    Cardinality({id \in DOMAIN eps :
                                   Eligible(eps[id]) /\ FormatAddress(eps[id]) = a})
            /\ \A id \in DOMAIN eps :
                  now - eps[id].LastSeen > 30 =>
                    /\ id \notin got.result \cup listed
                    /\ Cardinality({i \in DOMAIN eps : now - eps[i].LastSeen <= 30})
                         >= BagCardinality(adr)

\* An endpoint whose flag is still true 35 s after its last update is held
\* back while a fresher endpoint of the same service is returned.
C1_Witness ==
    \E s \in ServiceObjs :
        LET eps == StoredEndpoints("node-1", serviceKey(s.Name, s.Namespace))
        IN  /\ \E id \in DOMAIN eps : eps[id].Healthy /\ now - eps[id].LastSeen > 30
            /\ GetServiceAddresses("node-1", s.Name, s.Namespace).err = ""
            /\ Cardinality(GetServiceEndpoints("node-1", s.Name, s.Namespace).result) = 1

-----------------------------------------------------------------------------
(* The store of one agent: SpecStore *)

StoreKinds == {"deployments", "services", "ingresses", "pods"}

\* The objects the API and the recovery save under each kind
StoreObjs(kind) ==
    CASE kind = "deployments" -> DeploymentObjs
      [] kind = "services"    -> ServiceObjs
      [] kind = "ingresses"   -> IngressObjs
      [] kind = "pods"        -> StorePodObjs

StoreNamespaces == {"default", "prod"}

StoreNames == {"web", "db", "site", "web-0"}

\* The map that holds one object, or none
MapOf(objs) ==
    [k \in {StoreKey(o.Namespace, o.Name) : o \in objs} |->
        CHOOSE o \in objs : StoreKey(o.Namespace, o.Name) = k]

AtMostOne(objs) == {{}} \cup {{o} : o \in objs}

\* The snapshots a peer's GetState can hold.  The peer stamps last_modified
\* with its own clock, which may run ahead of this agent's.
PeerSnapshots ==
    { [Deployments |-> MapOf(d), Services |-> MapOf(si[1]), Ingresses |-> MapOf(si[2]),
       Pods |-> MapOf(p), LastModified |-> lm, Version |-> 1]
      : d \in AtMostOne(DeploymentObjs \cup {PeerDeployment}),
        p \in AtMostOne(StorePodObjs),
        si \in {<<{}, {}>>,
                <<{sv \in ServiceObjs : sv.Name = "db"}, IngressObjs>>},
        lm \in 0..(MaxStoreTime + 1) }

\* What delegate.NotifyMsg hands to HandleStateSyncMessage from a peer
PeerSyncMessages ==
    {StateSyncMessage(state, state.LastModified, "node-2") : state \in PeerSnapshots}
        \cup {StateRequestMessage(now, "node-2")}

StoreTick ==
    /\ now < MaxStoreTime
    /\ now' = now + 1
    /\ UNCHANGED <<running, nodes, registryVars, storeVars>>

InitStore ==
    /\ now = StartTime
    /\ running = {"node-1"}
    /\ nodes = [n \in Nodes |-> Roster(n, Nodes)]
    /\ registry = [n \in Nodes |-> EmptyMap]
    /\ nextSweep = [n \in Nodes |-> SweepSeconds]
    /\ net = {}
    /\ InitStorage

NextStore ==
    \/ \E x \in DeploymentObjs : SaveDeployment("node-1", x)
    \/ \E x \in ServiceObjs : SaveService("node-1", x)
    \/ \E x \in IngressObjs : SaveIngress("node-1", x)
    \/ \E x \in StorePodObjs : SavePod("node-1", x)
    \/ \E ns \in StoreNamespaces, name \in StoreNames : DeleteDeployment("node-1", ns, name)
    \/ \E ns \in StoreNamespaces, name \in StoreNames : DeleteService("node-1", ns, name)
    \/ \E ns \in StoreNamespaces, name \in StoreNames : DeleteIngress("node-1", ns, name)
    \/ \E ns \in StoreNamespaces, name \in StoreNames : DeletePod("node-1", ns, name)
    \/ \E msg \in PeerSyncMessages : HandleStateSyncMessage("node-1", msg)
    \/ Stop("node-1")
    \/ NewStorage("node-1")
    \/ StoreTick

SpecStore == InitStore /\ [][NextStore]_vars

\* The entry of a map under a key, as a set: empty when the key is absent
At(m, k) == IF k \in DOMAIN m THEN {m[k]} ELSE {}

\* What a state.json file parses to, as a set: empty when there is no file
\* or the file does not parse
Parsed(file) ==
    IF file.exists /\ file.complete THEN {UnmarshalState(file.data)} ELSE {}

AllStoreKeys == {StoreKey(ns, name) : ns \in StoreNamespaces, name \in StoreNames}

\* The ClusterState field that holds a kind
Field(state, kind) ==
    CASE kind = "deployments" -> state.Deployments
      [] kind = "services"    -> state.Services
      [] kind = "ingresses"   -> state.Ingresses
      [] kind = "pods"        -> state.Pods

\* The reference merge of one pod key: the record with the greater
\* created_at, the local one on a tie
PodReference(local, incoming) ==
    IF incoming = {} THEN local
    ELSE IF local = {} THEN incoming
    ELSE IF \E i \in incoming, l \in local : i.CreatedAt > l.CreatedAt
         THEN incoming ELSE local

\* The reference: what a MergeState of `incoming` at time t must leave
\* (store s2, directory d2) of store s and directory d
MergeReference(s, d, incoming, t, s2, d2) ==
    IF ~(incoming.LastModified > s.lastModified)
    THEN /\ s2 = s
         /\ d2 = d
    ELSE /\ \A kind \in {"deployments", "services", "ingresses"} :
               \A k \in AllStoreKeys :
                   At(s2[kind], k) =
                       IF k \in DOMAIN Field(incoming, kind)
                       THEN {Field(incoming, kind)[k]}
                       ELSE At(s[kind], k)
         /\ \A k \in AllStoreKeys :
               At(s2.pods, k) = PodReference(At(s.pods, k), At(incoming.Pods, k))
         /\ \A kind \in StoreKinds : DOMAIN s2[kind] \subseteq AllStoreKeys
         /\ s2.lastModified = t
         /\ Parsed(d2.state) = {ClusterStateOf(s2)}

(* C6: on every reachable store and for every snapshot a peer can send,
   MergeState matches the reference.  When the snapshot's last_modified is
   not strictly after the local last_modified, the four maps, last_modified
   and state.json are untouched.  Otherwise every deployment, service and
   ingress key of the snapshot holds the snapshot's entry, every other
   local key holds what it held, each pod key holds the record with the
   greater created_at (the local one on a tie), last_modified is the
   current time and state.json parses to the merged state. *)
C6_MergeStateMatchesReference ==
    "node-1" \in running =>
        \A incoming \in PeerSnapshots :
            LET merged == MergeState(store["node-1"], disk["node-1"], incoming, now)
            IN  MergeReference(store["node-1"], disk["node-1"], incoming, now,
                               merged.store, merged.disk)

\* A merge has acted: the store holds the peer's version of default/web
\* over its own, beside a deployment and a pod record the peer's snapshot
\* cannot have replaced (p4 is as recent as any record of its key), and
\* last_modified is the time of a merge or a save, later than the start.
C6_Witness ==
    LET s == store["node-1"]
    IN  /\ "node-1" \in running
        /\ At(s.deployments, "default/web") = {PeerDeployment}
        /\ "prod/web" \in DOMAIN s.deployments
        /\ At(s.pods, "default/web-0") = {p \in PodRecords : p.ID = "p4"}
        /\ "default/db" \in DOMAIN s.services
        /\ s.lastModified = now
        /\ now > StartTime
        /\ Parsed(disk["node-1"].state) = {ClusterStateOf(s)}

(* C7: merge is idempotent.  Merging the store's own current snapshot into
   itself leaves the store unchanged, and for every snapshot t, applying
   MergeState(t) and then, at that moment or later, MergeState(t) again
   leaves the store (the four maps and last_modified) that the first
   application left. *)
C7_MergeIsIdempotent ==
    LET s == store["node-1"]
        d == disk["node-1"]
    IN  "node-1" \in running =>
          /\ MergeState(s, d, GetState("node-1"), now).store = s
          /\ \A t \in PeerSnapshots : \A later \in {now, now + 1} :
                LET once == MergeState(s, d, t, now)
                IN  MergeState(once.store, once.disk, t, later).store = once.store

(* C8: on every reachable store and for each kind K, the store SaveK(x)
   leaves returns x from GetK(x.namespace, x.name), the store
   DeleteK(ns, name) leaves returns a not-found error from GetK(ns, name),
   and either leaves the entry of every other key of that kind and every
   entry of the other kinds as it was. *)
C8_SaveGetDelete ==
    "node-1" \in running =>
      \A kind \in StoreKinds :
        LET s == store["node-1"]
            Others(s2, ns, name) ==
                /\ \A ns2 \in StoreNamespaces, name2 \in StoreNames :
                      <<ns2, name2>> # <<ns, name>> =>
                          Get(s2, kind, ns2, name2) = Get(s, kind, ns2, name2)
                /\ \A other \in StoreKinds \ {kind} : s2[other] = s[other]
        IN  /\ \A x \in StoreObjs(kind) :
                  LET saved == Put(s, kind, x, now)
                  IN  /\ Get(saved, kind, x.Namespace, x.Name)
                             = [err |-> "", value |-> {x}]
                      /\ Others(saved, x.Namespace, x.Name)
            /\ \A ns \in StoreNamespaces, name \in StoreNames :
                  LET deleted == Remove(s, kind, ns, name, now)
                  IN  /\ Get(deleted, kind, ns, name)
                             = [err |-> "not found", value |-> {}]
                      /\ Others(deleted, ns, name)

\* A store that saves of three kinds have filled by the end of the run:
\* default/web returns its second version, prod/web and the service
\* default/db are found, no pod is, and state.json holds no pod either.
C8_Witness ==
    LET s == store["node-1"]
    IN  /\ "node-1" \in running
        /\ GetDeployment(s, "default", "web").value
               = {x \in DeploymentObjs : x.Namespace = "default" /\ x.DesiredReplicas = 2}
        /\ GetDeployment(s, "prod", "web").err = ""
        /\ GetService(s, "default", "db").err = ""
        /\ GetPod(s, "default", "web-0").err = "not found"
        /\ disk["node-1"].state.exists
        /\ Cardinality(DOMAIN UnmarshalState(disk["node-1"].state.data).Pods) = 0
        /\ s.lastModified = MaxStoreTime

\* List<Kind> of a store
List(s, kind) == {s[kind][k] : k \in DOMAIN s[kind]}

(* C10: persistence round trip.  While an agent runs and no mutator is in
   progress, state.json, once a mutator has written it, parses to exactly
   the in-memory state (the four maps and last_modified), and before that
   the store is empty; so a Storage opened on the data directory returns
   from every Get and every List what the running instance returns. *)
C10_PersistenceRoundTrip ==
    \A n \in running :
        pc[n] = "idle" =>
            LET s == store[n]
                reopened == Load(disk[n])
            IN  /\ disk[n].state.exists => Parsed(disk[n].state) = {ClusterStateOf(s)}
                /\ ~disk[n].state.exists => s = EmptyStore
                /\ reopened.lastModified = s.lastModified
                /\ \A kind \in StoreKinds :
                      /\ List(reopened, kind) = List(s, kind)
                      /\ \A ns \in StoreNamespaces, name \in StoreNames :
                            Get(reopened, kind, ns, name) = Get(s, kind, ns, name)

\* Saves, a delete or a merge have left entities of three kinds in memory
\* some time ago, and state.json is on disk.
C10_Witness ==
    LET s == store["node-1"]
    IN  /\ "node-1" \in running
        /\ Cardinality(DOMAIN s.deployments) = 2
        /\ DOMAIN s.pods # {}
        /\ DOMAIN s.ingresses # {}
        /\ DOMAIN s.services = {}
        /\ s.lastModified > 0
        /\ s.lastModified < now
        /\ disk["node-1"].state.exists

-----------------------------------------------------------------------------
(* persist step by step, and the agent killed between any two steps:
   SpecPersist *)

\* The kinds and snapshots the step-by-step specification draws from
PersistKinds == {"deployments", "pods"}

PersistSnapshots ==
    {state \in PeerSnapshots : DOMAIN state.Services = {} /\ DOMAIN state.Pods = {}}

\* A mutator that enters persist without having updated its map
EnterUnapplied(n, s2) ==
    /\ n \in running
    /\ pc[n] = "idle"
    /\ pc' = [pc EXCEPT ![n] = "persist"]
    /\ UNCHANGED <<now, running, nodes, registryVars, wrote, disk, store>>

\* A mutator takes Storage.mu, updates its map and last_modified, and
\* enters persist
Enter(n, s2) ==
    /\ n \in running
    /\ pc[n] = "idle"
    /\ store' = [store EXCEPT ![n] = s2]
    /\ pc' = [pc EXCEPT ![n] = "persist"]
    /\ UNCHANGED <<now, running, nodes, registryVars, wrote, disk>>

BeginSave(n, kind, obj) == Enter(n, Put(store[n], kind, obj, now))

BeginDelete(n, kind, namespace, name) ==
    Enter(n, Remove(store[n], kind, namespace, name, now))

\* MergeState up to its call of persist; a snapshot that is not newer
\* returns at once
BeginMerge(n, incomingState) ==
    /\ incomingState.LastModified > store[n].lastModified
    /\ Enter(n, MergeState(store[n], disk[n], incomingState, now).store)

\* os.WriteFile has created or truncated state.json.tmp and written a part
persistOpenTmp(n) ==
    /\ n \in running
    /\ pc[n] = "persist"
    /\ disk' = [disk EXCEPT ![n] = WriteTmpPart(@, MarshalState(ClusterStateOf(store[n])))]
    /\ pc' = [pc EXCEPT ![n] = "writing"]
    /\ UNCHANGED <<now, running, nodes, registryVars, wrote, store>>

\* os.WriteFile has written the last byte
persistWriteTmp(n) ==
    /\ n \in running
    /\ pc[n] = "writing"
    /\ disk' = [disk EXCEPT ![n] = WriteTmp(@, MarshalState(ClusterStateOf(store[n])))]
    /\ pc' = [pc EXCEPT ![n] = "written"]
    /\ UNCHANGED <<now, running, nodes, registryVars, wrote, store>>

\* os.Rename(tmpFile, stateFile)
persistRename(n) ==
    /\ n \in running
    /\ pc[n] = "written"
    /\ disk' = [disk EXCEPT ![n] = RenameTmp(@)]
    /\ pc' = [pc EXCEPT ![n] = "renamed"]
    /\ UNCHANGED <<now, running, nodes, registryVars, wrote, store>>

\* persist returns nil and the mutator releases Storage.mu
persistReturn(n) ==
    /\ n \in running
    /\ pc[n] = "renamed"
    /\ pc' = [pc EXCEPT ![n] = "idle"]
    /\ UNCHANGED <<now, running, nodes, registryVars, wrote, store, disk>>

NextPersist ==
    \/ \E kind \in PersistKinds : \E x \in StoreObjs(kind) : BeginSave("node-1", kind, x)
    \/ \E kind \in PersistKinds : \E ns \in StoreNamespaces, name \in StoreNames :
          BeginDelete("node-1", kind, ns, name)
    \/ \E state \in PersistSnapshots : BeginMerge("node-1", state)
    \/ persistOpenTmp("node-1")
    \/ persistWriteTmp("node-1")
    \/ persistRename("node-1")
    \/ persistReturn("node-1")
    \/ Stop("node-1")
    \/ NewStorage("node-1")
    \/ StoreTick

SpecPersist == InitStore /\ [][NextPersist]_vars

(* C9: atomic write.  Whatever step the agent is killed at, state.json
   either does not exist or parses fully; it changes only to the state the
   running agent holds in memory, written whole, so it always holds a state
   that was persisted completely; and a restart loads what state.json
   holds, or the empty store when there is none, whatever state.json.tmp
   holds: a save interrupted before the rename is absent after restart. *)
C9_AtomicWrite ==
    [][\A n \in {"node-1"} :
          /\ disk'[n].state.exists => disk'[n].state.complete
          /\ disk'[n].state # disk[n].state =>
                /\ n \in running
                /\ Parsed(disk'[n].state) = {ClusterStateOf(store[n])}
          /\ (n \notin running /\ n \in running') =>
                {ClusterStateOf(store'[n])} =
                    IF disk[n].state.exists THEN Parsed(disk[n].state)
                    ELSE {ClusterStateOf(EmptyStore)}]_vars

\* The agent was killed while it wrote state.json.tmp and has restarted:
\* the partial temporary file is still there, and the store holds the
\* deployment that state.json, persisted whole before, holds.
C9_Witness ==
    LET d == disk["node-1"]
    IN  /\ "node-1" \in running
        /\ pc["node-1"] = "idle"
        /\ d.tmp.exists
        /\ ~d.tmp.complete
        /\ d.state.exists
        /\ d.tmp.data # d.state.data
        /\ DOMAIN store["node-1"].deployments # {}
        /\ Parsed(d.state) = {ClusterStateOf(store["node-1"])}

-----------------------------------------------------------------------------
(* Two agents that have joined each other: what SpecDiscovery and SpecSync
   share.  Every state_sync is delivered and every round of tickers and
   deliveries ends before the clock advances: the premises of the
   statements checked here. *)

\* StartPeriodicSync's loop body: BroadcastState
BroadcastState(n) ==
    /\ n \in running
    /\ pc[n] = "idle"
    /\ now >= nextSync[n]
    /\ net' = net \cup Broadcast(n, StateSyncMessage(GetState(n), now, n))
    /\ nextSync' = [nextSync EXCEPT ![n] = @ + SyncSeconds]
    /\ UNCHANGED <<now, running, nodes, registry, nextSweep, store, disk, pc, wrote,
                   agentVars, apiVars>>

\* delegate.NotifyMsg with the handler main.go installs: every payload goes
\* to HandleServiceUpdate and then to HandleStateSyncMessage
NotifyMsg(m) ==
    LET n == m.to
        msg == m.data
    IN  /\ m \in net
        /\ n \in running
        /\ pc[n] = "idle"
        /\ net' = net \ {m}
        /\ registry' = [registry EXCEPT ![n] = ApplyServiceUpdate(@, msg, now)]
        /\ IF msg.type = "state_sync" /\ msg.state # {}
           THEN LET incomingState == UnmarshalState(CHOOSE doc \in msg.state : TRUE)
                    merged == MergeState(store[n], disk[n], incomingState, now)
                IN  /\ store' = [store EXCEPT ![n] = merged.store]
                    /\ disk' = [disk EXCEPT ![n] = merged.disk]
           ELSE UNCHANGED <<store, disk>>
        /\ UNCHANGED <<now, running, nodes, nextSweep, pc, nextSync, wrote, agentVars, apiVars>>

\* memberlist's SendBestEffort: a service_update packet that never arrives
LoseUpdate(m) ==
    /\ m \in net
    /\ m.data.type = "service_update"
    /\ net' = net \ {m}
    /\ UNCHANGED <<now, running, nodes, registry, nextSweep, storeVars>>

\* The clock advances once nothing is in flight and no ticker is overdue
ClusterTick(d, tickers, horizon) ==
    /\ net = {}
    /\ now + d <= horizon
    /\ \A n \in running : \A i \in DOMAIN tickers : now + d <= tickers[i][n]
    /\ now' = now + d
    /\ UNCHANGED <<running, nodes, registry, nextSweep, net, storeVars>>

InitCluster ==
    /\ now = StartTime
    /\ running = Nodes
    /\ nodes = [n \in Nodes |-> Roster(n, Nodes)]
    /\ registry = [n \in Nodes |-> EmptyMap]
    /\ nextSweep = [n \in Nodes |-> now + SweepSeconds]
    /\ net = {}
    /\ pc = [n \in Nodes |-> "idle"]
    /\ nextSync = [n \in Nodes |-> now + SyncSeconds]
    /\ wrote = [n \in Nodes |-> EmptyMap]
    /\ InitAgent

-----------------------------------------------------------------------------
(* The stores of two agents and their anti-entropy: SpecSync *)

\* SaveDeployment, with the history of the call
RecordedSave(n, deployment) ==
    /\ now <= WriteUntil
    /\ Commit(n, Put(store[n], "deployments", deployment, now))
    /\ wrote' = [wrote EXCEPT ![n] =
                    MapPut(@, StoreKey(deployment.Namespace, deployment.Name),
                           [at |-> now, obj |-> deployment])]

InitSync ==
    /\ InitCluster
    /\ store = [n \in Nodes |-> EmptyStore]
    /\ disk = [n \in Nodes |-> EmptyDir]

NextSync ==
    \/ \E n \in Nodes, x \in DeploymentObjs : RecordedSave(n, x)
    \/ \E n \in Nodes : BroadcastState(n)
    \/ \E m \in net : NotifyMsg(m)
    \/ \E d \in ClusterSteps : ClusterTick(d, <<nextSync>>, MaxClusterTime)

SpecSync == InitSync /\ [][NextSync]_vars

\* The history entry of agent n for a key, [at |-> 0] when it never saved it
WroteAt(n, k) == IF k \in DOMAIN wrote[n] THEN wrote[n][k] ELSE [at |-> 0]

LastWrites == {WroteAt(n, k).at : n \in Nodes, k \in AllStoreKeys}

Latest(times) == CHOOSE t \in times : \A u \in times : u <= t

\* A round of the 30 s tickers is over: both have fired and every payload
\* has been handled
RoundOver == net = {} /\ \A n \in Nodes : nextSync[n] > now

(* C4: anti-entropy convergence.  When the last SaveDeployment on any agent
   was at time T, every state_sync has reached the other agent and the
   clock reads T + 60 s or more, both agents hold equal ClusterState: the
   same deployments, services, ingresses, pods and last_modified. *)
C4_ConvergedAfterTwoPeriods ==
    (RoundOver /\ now >= Latest(LastWrites) + 2 * SyncSeconds)
        => GetState("node-1") = GetState("node-2")

\* No two saves of the history bear the same time
DistinctWriteTimes ==
    \A n1 \in Nodes, n2 \in Nodes : \A k1 \in DOMAIN wrote[n1], k2 \in DOMAIN wrote[n2] :
        <<n1, k1>> # <<n2, k2>> => wrote[n1][k1].at # wrote[n2][k2].at

(* C5: concurrent writes to one key are resolved by timestamp order.  When
   both agents have saved different versions of the Deployment default/web,
   whatever else they saved at other times, and two sync periods have
   passed since the later of the two saves with every state_sync delivered,
   both agents hold the version that was saved later. *)
C5_LaterWriteWins ==
    LET k == "default/web"
        a == WroteAt("node-1", k)
        b == WroteAt("node-2", k)
    IN  ( /\ a.at > 0
          /\ b.at > 0
          /\ a.obj # b.obj
          /\ DistinctWriteTimes
          /\ RoundOver
          /\ now >= Latest({a.at, b.at}) + 2 * SyncSeconds )
        => \A n \in Nodes :
              At(store[n].deployments, k) = {IF a.at > b.at THEN a.obj ELSE b.obj}

-----------------------------------------------------------------------------
(* The registries of two agents, their service_update broadcasts and the
   state_sync snapshots that pass through the same hook: SpecDiscovery *)

DiscoveryServices == {s \in ServiceObjs : s.Name = "web"}

\* node-1 has recovered one deployment at start (RecoverDeployments saves
\* it), so its snapshots are newer than the empty store of node-2
RecoveredStore ==
    Put(EmptyStore, "deployments",
        CHOOSE x \in DeploymentObjs : x.Namespace = "prod", StartTime)

InitDiscovery ==
    /\ InitCluster
    /\ store = [n \in Nodes |-> IF n = "node-1" THEN RecoveredStore ELSE EmptyStore]
    /\ disk = [n \in Nodes |-> IF n = "node-1" THEN persist(RecoveredStore, EmptyDir)
                                ELSE EmptyDir]

\* Each agent registers and deregisters the pods that run on it
NextDiscovery ==
    \/ \E n \in Nodes, s \in DiscoveryServices, p \in PodObjs :
          p.NodeName = n /\ RegisterService(n, s, p)
    \/ \E n \in Nodes, s \in DiscoveryServices, p \in PodObjs :
          p.NodeName = n /\ DeregisterService(n, s, p)
    \/ \E n \in Nodes : healthCheck(n)
    \/ \E n \in Nodes : BroadcastState(n)
    \/ \E m \in net : NotifyMsg(m)
    \/ \E m \in net : LoseUpdate(m)
    \/ \E d \in ClusterSteps : ClusterTick(d, <<nextSync, nextSweep>>, MaxDiscoveryTime)

SpecDiscovery == InitDiscovery /\ [][NextDiscovery]_vars

\* The address GetServiceAddresses formats for an endpoint is among those
\* it returns on agent n
Returned(n, endpoint) ==
    LET got == GetServiceAddresses(n, endpoint.ServiceName, endpoint.Namespace)
    IN  got.err = "" /\ BagIn(FormatAddress(endpoint), got.addresses)

\* Agent n holds an endpoint under the same key and id
Holds(n, key, id) == key \in DOMAIN registry[n] /\ id \in DOMAIN registry[n][key]

\* The 30 s tickers and the 10 s sweeps of this second are over, and every
\* payload has been handled or lost
Settled == RoundOver /\ \A n \in Nodes : nextSweep[n] > now

(* C2: an endpoint registered for a pod that runs on a live node stays
   fresh.  Once the first round of state_sync snapshots has been broadcast
   and delivered, and with every later one delivered too, an endpoint that
   its owning agent registered and has not deregistered is returned by
   GetServiceAddresses on the owning agent and on every peer that holds
   it. *)
C2_EndpointStaysFresh ==
    (Settled /\ now >= StartTime + SyncSeconds) =>
        \A n \in Nodes : \A key \in DOMAIN registry[n] : \A id \in DOMAIN registry[n][key] :
            registry[n][key][id].NodeName = n =>
                \A m \in Nodes : Holds(m, key, id) => Returned(m, registry[m][key][id])

(* C3: a lost register is repaired by the next snapshot.  When agent A
   holds and returns an endpoint it registered, A has broadcast a
   state_sync snapshot after the register, and agent B has handled every
   payload that reached it, GetServiceAddresses on B returns the
   endpoint. *)
C3_LostRegisterRepaired ==
    \A a \in Nodes, b \in Nodes : \A key \in DOMAIN registry[a] :
        \A id \in DOMAIN registry[a][key] :
            LET endpoint == registry[a][key][id]
            IN  ( /\ a # b
                  /\ endpoint.NodeName = a
                  /\ Returned(a, endpoint)
                  /\ endpoint.LastSeen < nextSync[a] - SyncSeconds
                  /\ Settled )
                => Returned(b, endpoint)


-----------------------------------------------------------------------------
(* Agents that boot, join and leave, and their join tokens: SpecJoin *)

\* A key an operator configures: "s3cr3t"
SharedSecret == <<115, 51, 99, 114, 51, 116>>

\* Join tokens an operator may pass: none, "!", and the tokens a token
\* manager may generate, whether one has generated them or not
JoinTokens == {<< >>, <<33>>} \cup {EncodeToString(b) : b \in RandomBytes}

\* node-1 starts a cluster; node-2 starts one of its own or joins node-1
JoinConfigs(n) ==
    {Config(a, t, k) : a \in IF n = "node-1" THEN {{}} ELSE {{}, {"node-1"}},
                       t \in JoinTokens, k \in {<< >>, SharedSecret}}

InitJoin ==
    /\ now = StartTime
    /\ running = {}
    /\ nodes = [n \in Nodes |-> EmptyMap]
    /\ registry = [n \in Nodes |-> EmptyMap]
    /\ nextSweep = [n \in Nodes |-> now + SweepSeconds]
    /\ net = {}
    /\ store = [n \in Nodes |-> EmptyStore]
    /\ disk = [n \in Nodes |-> EmptyDir]
    /\ pc = [n \in Nodes |-> "down"]
    /\ nextSync = [n \in Nodes |-> now + SyncSeconds]
    /\ wrote = [n \in Nodes |-> EmptyMap]
    /\ tm = [n \in Nodes |-> TokenManager(<< >>)]
    /\ encryptor = [n \in Nodes |-> << >>]
    /\ keyFile = [n \in Nodes |-> NoKeyFile]
    /\ config = [n \in Nodes |-> Config({}, << >>, << >>)]
    /\ whitelist = [n \in Nodes |-> SetWhitelistTo(FALSE, {})]
    /\ reply = [n \in Nodes |-> NoReply]
    /\ InitAPI

NextJoin ==
    \/ \E n \in Nodes : \E cfg \in JoinConfigs(n) : Boot(n, cfg)
    \/ \E n \in Nodes : Shutdown(n)
    \/ \E s \in Nodes, n \in Nodes : NotifyLeave(s, n)

SpecJoin == InitJoin /\ [][NextJoin]_vars

\* The token is in the manager's token set, or its decoded bytes and the
\* manager's secret reproduce a stored hash
Recognized(m, token) ==
    \/ token \in DOMAIN m.tokens
    \/ /\ ~DecodeString(token).err
       /\ \E k \in DOMAIN m.tokens :
             m.tokens[k].Hash = Sum256Hex(m.secret \o DecodeString(token).bytes)

\* C11: an agent that starts with join seeds enters the roster of an agent
\* that is already up only if that agent's token manager recognizes the join
\* token it presents; with an unissued token, or with none, it enters no
\* roster.
C11_OnlyRecognizedJoinersAdmitted ==
    [][\A n \in Nodes, s \in Nodes :
          ( /\ n \notin running
            /\ n \in running'
            /\ s \in running
            /\ n \notin DOMAIN nodes[s]
            /\ n \in DOMAIN nodes'[s] )
          => Recognized(tm[s], config'[n].JoinToken)]_vars

\* The agent runs as a first node with no key configured
FirstBoot(n) ==
    /\ n \in running
    /\ config[n].JoinAddrs = {}
    /\ Len(config[n].EncryptionKey) = 0

\* C14: the key a first node with no key configured writes to encryption.key
\* and seals with is one the random source produced, not a fixed value, so
\* that two first boots need not end up with the same key.
C14_FirstBootKeyIsRandom ==
    \A n \in Nodes :
        FirstBoot(n) => /\ keyFile[n].exists
                        /\ keyFile[n].data \in RandomBytes
                        /\ encryptor[n] = keyFile[n].data

-----------------------------------------------------------------------------
(* Two token managers on their own, as token_test.go builds them: SpecTokens *)

InitTokens ==
    /\ now = StartTime
    /\ running = Nodes
    /\ nodes = [n \in Nodes |-> Roster(n, {n})]
    /\ registry = [n \in Nodes |-> EmptyMap]
    /\ nextSweep = [n \in Nodes |-> now + SweepSeconds]
    /\ net = {}
    /\ store = [n \in Nodes |-> EmptyStore]
    /\ disk = [n \in Nodes |-> EmptyDir]
    /\ pc = [n \in Nodes |-> "idle"]
    /\ nextSync = [n \in Nodes |-> now + SyncSeconds]
    /\ wrote = [n \in Nodes |-> EmptyMap]
    /\ tm \in [Nodes -> NewTokenManager(<< >>) \cup NewTokenManager(SharedSecret)]
    /\ encryptor = [n \in Nodes |-> NewEncryptor(ZeroBytes)]
    /\ keyFile = [n \in Nodes |-> KeyFileOf(ZeroBytes)]
    /\ config = [n \in Nodes |-> Config({}, << >>, << >>)]
    /\ whitelist = [n \in Nodes |-> SetWhitelistTo(FALSE, {})]
    /\ reply = [n \in Nodes |-> NoReply]
    /\ InitAPI

NextTokens ==
    \/ \E n \in Nodes, b \in RandomBytes : IssueToken(n, b)
    \/ \E n \in Nodes, t \in JoinTokens : Revoke(n, t)

SpecTokens == InitTokens /\ [][NextTokens]_vars

\* C12: two token managers that hold the same secret accept each other's
\* tokens, whatever tokens each of them holds itself.
C12_SameSecretAcceptsToken ==
    \A a \in running, b \in running :
        tm[a].secret = tm[b].secret
        => \A token \in ListTokens(tm[a]) : ValidateToken(tm[b], token)


-----------------------------------------------------------------------------
(* An agent that receives sealed frames from the network: SpecSealed *)

\* What peers broadcast: the updates of node-2's web endpoint and snapshots
\* of node-2's store
SealedMessages ==
    {msg \in PeerUpdates : msg.serviceName = "web"}
        \cup {StateSyncMessage(ClusterStateOf(Put(EmptyStore, "deployments", x, now)),
                               now, "node-2")
              : x \in {y \in DeploymentObjs : y.Namespace = "prod"}}

\* A frame with a byte of its nonce altered
AlterNonce(frame) == [frame EXCEPT !.nonce = CHOOSE x \in Nonces : x # @]

\* A frame with a byte of its ciphertext or tag altered
AlterCiphertext(frame) == [frame EXCEPT !.box.altered = TRUE]

\* The first bytes of a frame, fewer than a nonce
Truncate(frame) == [frame EXCEPT !.short = TRUE]

\* What the network may hand to agent n: frames sealed under its key or under
\* another, as they were sent or damaged on the way
Frames(n) ==
    LET sent == UNION {Encrypt(key, msg) : key \in {encryptor[n], NewEncryptor(SharedSecret)},
                                           msg \in SealedMessages}
    IN  sent \cup {AlterNonce(f) : f \in sent}
             \cup {AlterCiphertext(f) : f \in sent}
             \cup {Truncate(f) : f \in sent}

\* memberlist receives a packet for agent n
ReceivePacket(n, frame) ==
    /\ n \in running
    /\ net = {}
    /\ net' = {[to |-> n, data |-> frame]}
    /\ UNCHANGED <<now, running, nodes, registry, nextSweep, storeVars>>

InitSealed ==
    /\ InitCluster
    /\ store = [n \in Nodes |-> EmptyStore]
    /\ disk = [n \in Nodes |-> EmptyDir]

NextSealed ==
    \/ \E frame \in Frames("node-1") : ReceivePacket("node-1", frame)
    \/ \E m \in net : NotifyMsgFrame(m)
    \/ StoreTick

SpecSealed == InitSealed /\ [][NextSealed]_vars

\* The frame is the sealing of its plaintext under the key
ValidSealing(key, frame) == frame = Seal(key, frame.nonce, frame.box.plaintext)

\* C13: an agent with an encryption key drops a frame that is not a valid
\* sealing under its key (a byte of the nonce or of the ciphertext altered,
\* shorter than a nonce, sealed under another key): when NotifyMsg takes the
\* frame, the registry, the store and the data directory stay as they are.
C13_InvalidFrameDropped ==
    [][\A m \in net :
          ( /\ net' = net \ {m}
            /\ encryptor[m.to] # << >>
            /\ ~ValidSealing(encryptor[m.to], m.data) )
          => /\ ~Delivered(m.to, m.data).handled
             /\ registry' = registry
             /\ store' = store
             /\ disk' = disk]_vars

\* An invalid frame is in flight whose plaintext the handler would have acted on
C13_Witness ==
    \E m \in net :
        /\ encryptor[m.to] # << >>
        /\ ~ValidSealing(encryptor[m.to], m.data)
        /\ m.data.box.key = encryptor[m.to]
        /\ registry[m.to] # EmptyMap
        /\ HandleMessage(m.to, m.data.box.plaintext).registry # registry[m.to]


-----------------------------------------------------------------------------
(* The DNS server of one agent over its registry: SpecDNS *)

\* The clock of the DNS specification stops advancing here.
MaxDNSTime == 35

\* No upstream server answers
NoExchange ==
    [u \in {upstreamDNS[i] : i \in DOMAIN upstreamDNS} |->
        [udp |-> [err |-> TRUE], tcp |-> [err |-> TRUE]]]

\* The labels clients ask for: a service that exists and one that does not
DNSServices == {<<"w", "e", "b">>, <<"a", "p", "i">>}

DNSNamespaces == {<<"d", "e", "f", "a", "u", "l", "t">>}

\* <svc>.<ns>.<zone>. and <svc>.<ns>.svc.<zone>.
ShortName(svc, ns) == svc \o <<".">> \o ns \o <<".">> \o clusterDomain \o <<".">>

SvcName(svc, ns) == svc \o <<".">> \o ns \o <<".", "s", "v", "c", ".">> \o clusterDomain \o <<".">>

\* One name in several spellings, for A and for SRV
ASpellings ==
    {<<"w", "e", "b", ".", "d", "e", "f", "a", "u", "l", "t", ".", "c", "l", "u", "s", "t", "e", "r", ".", "l", "o", "c", "a", "l", ".">>, <<"W", "e", "b", ".", "d", "e", "f", "a", "u", "l", "t", ".", "c", "l", "u", "s", "t", "e", "r", ".", "l", "o", "c", "a", "l", ".">>,
     <<"w", "e", "b", ".", "D", "e", "f", "a", "u", "l", "t", ".", "c", "l", "u", "s", "t", "e", "r", ".", "l", "o", "c", "a", "l", ".">>, <<"w", "e", "b", ".", "d", "e", "f", "a", "u", "l", "t", ".", "C", "l", "u", "s", "t", "e", "r", ".", "L", "o", "c", "a", "l", ".">>}

SRVSpellings ==
    {<<"_", "h", "t", "t", "p", ".", "_", "t", "c", "p", ".", "w", "e", "b", ".", "d", "e", "f", "a", "u", "l", "t", ".", "c", "l", "u", "s", "t", "e", "r", ".", "l", "o", "c", "a", "l", ".">>, <<"_", "h", "t", "t", "p", ".", "_", "t", "c", "p", ".", "W", "E", "B", ".", "d", "e", "f", "a", "u", "l", "t", ".", "c", "l", "u", "s", "t", "e", "r", ".", "l", "o", "c", "a", "l", ".">>,
     <<"_", "h", "t", "t", "p", ".", "_", "t", "c", "p", ".", "w", "e", "b", ".", "d", "e", "f", "a", "u", "l", "t", ".", "C", "L", "U", "S", "T", "E", "R", ".", "l", "o", "c", "a", "l", ".">>}

\* A query with one question
Query(name, qtype) == [Question |-> <<Question(name, qtype)>>]

\* The queries clients send for names of the cluster domain
ClusterQueries ==
    {Query(ShortName(svc, ns), "A") : svc \in DNSServices, ns \in DNSNamespaces}
        \cup {Query(SvcName(<<"w", "e", "b">>, <<"d", "e", "f", "a", "u", "l", "t">>), "A"),
              Query(ShortName(<<"w", "e", "b">>, <<"d", "e", "f", "a", "u", "l", "t">>), "AAAA"),
              Query(clusterDomain \o <<".">>, "A")}
        \cup {Query(name, "A") : name \in ASpellings}
        \cup {Query(name, "SRV") : name \in SRVSpellings}

DNSTick(d) ==
    /\ now + d <= MaxDNSTime
    /\ Tick(d)

NextDNS ==
    \/ \E s \in DiscoveryServices, p \in PodObjs : RegisterService("node-1", s, p)
    \/ \E s \in DiscoveryServices, p \in PodObjs : DeregisterService("node-1", s, p)
    \/ healthCheck("node-1")
    \/ \E d \in RegistrySteps : DNSTick(d)
    \/ \E r \in ClusterQueries : ServeDNS("node-1", r, NoExchange)

SpecDNS == InitRegistry /\ [][NextDNS]_vars

\* The bag of the addresses of the A records of a section
AddressesOf(section) ==
    LET rrs == {rr \in BagToSet(section) : rr.Rrtype = "A"}
    IN  [a \in {rr.A : rr \in rrs} |->
            BagCardinality([rr \in {x \in rrs : x.A = a} |-> section[rr]])]

\* The bag of the addresses of the endpoints GetServiceEndpoints returns
EndpointAddresses(n, serviceName, namespace) ==
    LET got == GetServiceEndpoints(n, serviceName, namespace)
        endpoints == registry[n][serviceKey(serviceName, namespace)]
    IN  IF got.err # "" THEN EmptyBag
        ELSE [a \in {endpoints[id].Address : id \in got.result} |->
                 Cardinality({id \in got.result : endpoints[id].Address = a})]

\* C15: the reply to an A question <svc>.<ns>.<zone> is NOERROR and its Answer
\* holds one A record with TTL 60 per endpoint GetServiceEndpoints(svc, ns)
\* returns, with the endpoints' addresses; it is empty where the service is
\* unknown or has no fresh endpoint.
C15_OneARecordPerEndpoint ==
    \A svc \in DNSServices, ns \in DNSNamespaces :
        \A m \in handleDNS("node-1", Query(ShortName(svc, ns), "A"), NoExchange) :
            /\ m.Rcode = "NOERROR"
            /\ \A rr \in BagToSet(m.Answer) : rr.Rrtype = "A" /\ rr.Ttl = AnswerTTL
            /\ AddressesOf(m.Answer) = EndpointAddresses("node-1", Text(svc), Text(ns))

\* C16: an A query for <svc>.<ns>.svc.<zone> returns the addresses an A query
\* for <svc>.<ns>.<zone> returns, and both names parse to the same service
\* and namespace.
C16_SvcFormResolvesAlike ==
    \A svc \in DNSServices, ns \in DNSNamespaces :
        /\ parseServiceName(SvcName(svc, ns)) = parseServiceName(ShortName(svc, ns))
        /\ \A m1 \in handleDNS("node-1", Query(SvcName(svc, ns), "A"), NoExchange),
              m2 \in handleDNS("node-1", Query(ShortName(svc, ns), "A"), NoExchange) :
              AddressesOf(m1.Answer) = AddressesOf(m2.Answer)

\* What C17 compares of two replies: how many records they answer with and
\* the addresses they give
Resolution(m) ==
    <<BagCardinality(m.Answer), AddressesOf(m.Answer), AddressesOf(m.Extra)>>

\* C17: two A queries, or two SRV queries, whose names differ in letter case
\* only are both taken for cluster queries or both not, and get the same
\* answers.
C17_NamesAreCaseInsensitive ==
    \A qtype \in {"A", "SRV"} :
        \A name1, name2 \in IF qtype = "A" THEN ASpellings ELSE SRVSpellings :
            ToLower(name1) = ToLower(name2)
            => /\ isClusterDomainQuery(Query(name1, qtype).Question)
                      = isClusterDomainQuery(Query(name2, qtype).Question)
               /\ {Resolution(m) : m \in handleDNS("node-1", Query(name1, qtype), NoExchange)}
                      = {Resolution(m) : m \in handleDNS("node-1", Query(name2, qtype), NoExchange)}


-----------------------------------------------------------------------------
(* The DNS server of one agent, its whitelist and its upstream servers:
   SpecForward *)

\* The whitelists an operator sets through the API
WhitelistHosts == {{}, {<<"e", "x", "a", "m", "p", "l", "e", ".", "c", "o", "m">>}, {<<"E", "x", "a", "m", "p", "l", "e", ".", "C", "O", "M", ".">>, <<"c", "d", "n", ".", "n", "e", "t">>}}

\* Names outside the cluster domain that clients ask for
ExternalNames ==
    {<<"e", "x", "a", "m", "p", "l", "e", ".", "c", "o", "m", ".">>, <<"a", "p", "i", ".", "e", "x", "a", "m", "p", "l", "e", ".", "c", "o", "m", ".">>, <<"A", "P", "I", ".", "E", "x", "a", "m", "p", "l", "e", ".", "C", "o", "m">>, <<"n", "o", "t", "e", "x", "a", "m", "p", "l", "e", ".", "c", "o", "m", ".">>,
     <<"e", "v", "i", "l", ".", "o", "r", "g", ".">>}

\* What the exchange with an upstream server may end with for a name: no
\* answer at all, NXDOMAIN, an address, and aliases inside and outside
\* example.com, in the Answer or in the Additional section
UpstreamResponses(name) ==
    LET resp(rcode, answer, extra) ==
            [err |-> FALSE, Rcode |-> rcode, Answer |-> answer, Extra |-> extra]
        a == [Name |-> name, Rrtype |-> "A", Ttl |-> 300, A |-> "93.184.216.34"]
    IN  {[err |-> TRUE],
         resp("NXDOMAIN", EmptyBag, EmptyBag),
         resp("NOERROR", SetToBag({a}), EmptyBag),
         resp("NOERROR", SetToBag({NewCNAME(name, <<"c", "d", "n", ".", "e", "x", "a", "m", "p", "l", "e", ".", "c", "o", "m", ".">>), a}), EmptyBag),
         resp("NOERROR", SetToBag({NewCNAME(name, <<"e", "v", "i", "l", ".", "o", "r", "g", ".">>), a}), EmptyBag),
         resp("NOERROR", SetToBag({a}), SetToBag({NewCNAME(name, <<"E", "v", "i", "l", ".", "O", "r", "g", ".">>)}))}

\* A message with one question, or with a second one for evil.org
ExternalQueries ==
    {Query(name, "A") : name \in ExternalNames}
        \cup {[Question |-> <<Question(name, "A"), Question(<<"e", "v", "i", "l", ".", "o", "r", "g", ".">>, "A")>>]
              : name \in {<<"a", "p", "i", ".", "e", "x", "a", "m", "p", "l", "e", ".", "c", "o", "m", ".">>}}

\* What the exchanges with the upstream servers end with: a server answers
\* over UDP, or is reached over neither transport
Exchanges(r) ==
    [{upstreamDNS[i] : i \in DOMAIN upstreamDNS} ->
        {[udp |-> x, tcp |-> [err |-> TRUE]] : x \in UpstreamResponses(r.Question[1].Name)}]

\* The response client.Exchange leaves forwardQuery with for one upstream
Outcome(x) == IF x.udp.err THEN x.tcp ELSE x.udp

NextForward ==
    \/ \E enabled \in BOOLEAN, hosts \in WhitelistHosts : SetWhitelist("node-1", enabled, hosts)
    \/ \E r \in ExternalQueries : \E exchange \in Exchanges(r) : ServeDNS("node-1", r, exchange)

SpecForward == InitRegistry /\ [][NextForward]_vars

\* C18: with the whitelist enabled, a query outside the cluster domain that
\* carries a name the whitelist does not allow is answered REFUSED and goes to
\* no upstream server; with an enabled empty whitelist every such query is.
C18_NotAllowedIsRefused ==
    LET w == whitelist["node-1"]
    IN  \A r \in ExternalQueries :
            ( /\ w.Enabled
              /\ ~isClusterDomainQuery(r.Question)
              /\ \/ w.Hosts = {}
                 \/ \E i \in DOMAIN r.Question : ~isHostAllowed(w, r.Question[i].Name) )
            => \A exchange \in Exchanges(r) :
                   \A m \in handleDNS("node-1", r, exchange) :
                       m.Rcode = "REFUSED" /\ m.Asked = << >>

\* The entries of a whitelist, and whether the name, or what is left of it
\* once leading labels are removed, is one of them
Entries(w) == {TrimSuffix(host, <<".">>) : host \in w.Hosts}

AllowedByEntries(w, name) ==
    LET labels == Split(ToLower(TrimSuffix(name, <<".">>)))
    IN  \E k \in 0..(Len(labels) - 1) :
            Join(SubSeq(labels, k + 1, Len(labels))) \in Entries(w)

\* C19: isHostAllowed holds of a name iff the whitelist is disabled, or the
\* name in lower case without its trailing dot is an entry, or is one once
\* leading labels are removed; an enabled empty whitelist allows nothing and
\* example.com does not allow notexample.com.
C19_AllowedIffSuffixOfLabels ==
    LET w == whitelist["node-1"]
    IN  /\ \A name \in ExternalNames :
               isHostAllowed(w, name) <=> (~w.Enabled \/ AllowedByEntries(w, name))
        /\ (w.Enabled /\ w.Hosts = {})
               => \A name \in ExternalNames : ~isHostAllowed(w, name)
        /\ (w.Enabled /\ Entries(w) = {<<"e", "x", "a", "m", "p", "l", "e", ".", "c", "o", "m">>})
               => ~isHostAllowed(w, <<"n", "o", "t", "e", "x", "a", "m", "p", "l", "e", ".", "c", "o", "m", ".">>)

\* example.com is whitelisted, a query for notexample.com has been refused
\* and api.example.com is allowed
C19_Witness ==
    LET w == whitelist["node-1"]
    IN  /\ w.Enabled
        /\ Entries(w) = {<<"e", "x", "a", "m", "p", "l", "e", ".", "c", "o", "m">>}
        /\ reply["node-1"].Rcode = "REFUSED"
        /\ reply["node-1"].Question = <<Question(<<"n", "o", "t", "e", "x", "a", "m", "p", "l", "e", ".", "c", "o", "m", ".">>, "A")>>
        /\ isHostAllowed(w, <<"a", "p", "i", ".", "e", "x", "a", "m", "p", "l", "e", ".", "c", "o", "m", ".">>)

\* The response is one the server may relay under the whitelist
Relayable(w, resp) ==
    /\ ~resp.err
    /\ resp.Rcode = "NOERROR"
    /\ \A rr \in BagToSet(resp.Answer) \cup BagToSet(resp.Extra) :
           rr.Rrtype = "CNAME" => isHostAllowed(w, rr.Target)

\* C20: with the whitelist enabled, the reply to an allowed query is the
\* response of the first upstream server whose response is successful and
\* holds no CNAME, in Answer or Additional, with a target that is not
\* allowed; the servers before it have been asked and passed over; where
\* there is no such server the reply is SERVFAIL.
C20_NoForeignCNAMERelayed ==
    LET w == whitelist["node-1"]
    IN  \A r \in ExternalQueries : \A exchange \in Exchanges(r) :
            LET m == forwardQuery(w, r, exchange)
                good == {i \in DOMAIN upstreamDNS : Relayable(w, Outcome(exchange[upstreamDNS[i]]))}
            IN  (w.Enabled /\ isHostAllowed(w, r.Question[1].Name))
                => /\ \A rr \in BagToSet(m.Answer) \cup BagToSet(m.Extra) :
                          rr.Rrtype = "CNAME" => isHostAllowed(w, rr.Target)
                   /\ IF good = {}
                      THEN m.Rcode = "SERVFAIL" /\ Len(m.Asked) = Len(upstreamDNS)
                      ELSE LET i == CHOOSE k \in good : \A j \in good : k <= j
                           IN  /\ m.Rcode = "NOERROR"
                               /\ m.Answer = Outcome(exchange[upstreamDNS[i]]).Answer
                               /\ m.Extra = Outcome(exchange[upstreamDNS[i]]).Extra
                               /\ Len(m.Asked) = i

\* The first upstream server answered with an alias outside the whitelist,
\* in its Additional section, and the reply is the second server's
C20_Witness ==
    LET w == whitelist["node-1"]
        m == reply["node-1"]
    IN  /\ w.Enabled
        /\ m.Rcode = "NOERROR"
        /\ Len(m.Asked) = 2
        /\ ~m.Asked[1].resp.err
        /\ m.Asked[1].resp.Rcode = "NOERROR"
        /\ \E rr \in BagToSet(m.Asked[1].resp.Extra) :
               rr.Rrtype = "CNAME" /\ ~isHostAllowed(w, rr.Target)
        /\ m = forwardQuery(w, [Question |-> m.Question],
                            [u \in {upstreamDNS[i] : i \in DOMAIN upstreamDNS} |->
                                [udp |-> (CHOOSE x \in {m.Asked[i] : i \in DOMAIN m.Asked} :
                                             x.upstream = u).resp,
                                 tcp |-> [err |-> TRUE]]])

-----------------------------------------------------------------------------
(* The exchanges of forwardQuery with the upstream servers, over UDP and
   TCP: SpecTransport *)

\* What one exchange over one transport may end with: an error, NXDOMAIN, an
\* address, an alias outside example.com
TransportResponses(name) ==
    LET resp(rcode, answer) ==
            [err |-> FALSE, Rcode |-> rcode, Answer |-> answer, Extra |-> EmptyBag]
        a(ip) == [Name |-> name, Rrtype |-> "A", Ttl |-> 300, A |-> ip]
    IN  {[err |-> TRUE],
         resp("NXDOMAIN", EmptyBag),
         resp("NOERROR", SetToBag({a("93.184.216.34")})),
         resp("NOERROR", SetToBag({NewCNAME(name, <<"e", "v", "i", "l", ".", "o", "r", "g", ".">>), a("203.0.113.7")}))}

TransportQueries == {Query(<<"a", "p", "i", ".", "e", "x", "a", "m", "p", "l", "e", ".", "c", "o", "m", ".">>, "A"), Query(<<"e", "v", "i", "l", ".", "o", "r", "g", ".">>, "A")}

TransportExchanges(r) ==
    [{upstreamDNS[i] : i \in DOMAIN upstreamDNS} ->
        [udp : TransportResponses(r.Question[1].Name),
         tcp : TransportResponses(r.Question[1].Name)]]

NextTransport ==
    \/ \E enabled \in BOOLEAN : SetWhitelist("node-1", enabled, {<<"e", "x", "a", "m", "p", "l", "e", ".", "c", "o", "m">>})
    \/ \E r \in TransportQueries : \E exchange \in TransportExchanges(r) :
           ServeDNS("node-1", r, exchange)

SpecTransport == InitRegistry /\ [][NextTransport]_vars

\* The response is one forwardQuery relays
Usable(w, resp) ==
    /\ ~resp.err
    /\ resp.Rcode = "NOERROR"
    /\ w.Enabled => \A rr \in BagToSet(resp.Answer) \cup BagToSet(resp.Extra) :
                        rr.Rrtype = "CNAME" => isHostAllowed(w, rr.Target)

\* C21: for a query outside the cluster domain that passes the whitelist,
\* the upstream servers are asked in the configured order; TCP is used with
\* a server exactly when its UDP exchange returned an error; the one reply
\* written is the response of the first server whose response is successful
\* and passes the CNAME validation, and no server after it is asked; where no
\* server gives such a response the one reply is SERVFAIL.
C21_UpstreamsInOrderUDPThenTCP ==
    LET w == whitelist["node-1"]
    IN  \A r \in TransportQueries : \A exchange \in TransportExchanges(r) :
            LET m == forwardQuery(w, r, exchange)
                good == {i \in DOMAIN upstreamDNS : Usable(w, Outcome(exchange[upstreamDNS[i]]))}
            IN  (~isClusterDomainQuery(r.Question) /\ (w.Enabled => isHostAllowed(w, r.Question[1].Name)))
                => /\ handleDNS("node-1", r, exchange) = {m}
                   /\ Len(m.Asked) <= Len(upstreamDNS)
                   /\ \A k \in DOMAIN m.Asked :
                          /\ m.Asked[k].upstream = upstreamDNS[k]
                          /\ m.Asked[k].nets = IF exchange[upstreamDNS[k]].udp.err
                                               THEN <<"udp", "tcp">> ELSE <<"udp">>
                          /\ m.Asked[k].resp = IF exchange[upstreamDNS[k]].udp.err
                                               THEN exchange[upstreamDNS[k]].tcp
                                               ELSE exchange[upstreamDNS[k]].udp
                   /\ IF good = {}
                      THEN /\ m.Rcode = "SERVFAIL"
                           /\ m.Answer = EmptyBag /\ m.Extra = EmptyBag
                           /\ Len(m.Asked) = Len(upstreamDNS)
                      ELSE LET i == CHOOSE k \in good : \A j \in good : k <= j
                           IN  /\ m.Rcode = "NOERROR"
                               /\ m.Answer = Outcome(exchange[upstreamDNS[i]]).Answer
                               /\ m.Extra = Outcome(exchange[upstreamDNS[i]]).Extra
                               /\ Len(m.Asked) = i

\* The first server failed over UDP and answered NXDOMAIN over TCP, and the
\* reply is the second server's UDP response
C21_Witness ==
    LET m == reply["node-1"]
    IN  /\ Len(m.Asked) = 2
        /\ m.Asked[1].nets = <<"udp", "tcp">>
        /\ m.Asked[1].resp = [err |-> FALSE, Rcode |-> "NXDOMAIN", Answer |-> EmptyBag, Extra |-> EmptyBag]
        /\ m.Asked[2].nets = <<"udp">>
        /\ m.Rcode = "NOERROR"
        /\ m.Answer = m.Asked[2].resp.Answer

-----------------------------------------------------------------------------
(* The APITokenManager of one agent, as auth_test.go drives it:
   SpecAPITokens *)

\* The expiries a caller asks for: none, one already passed, the present
\* second, the next
Expiries == {{}, {now - 1}, {now}, {now + 1}}

NextAPITokens ==
    \/ \E e \in Expiries, b \in RandomBytes : APIIssue("node-1", "ci", e, b)
    \/ \E token \in JoinTokens : APIRevoke("node-1", token)
    \/ APICleanup("node-1")
    \/ StoreTick

SpecAPITokens == InitStore /\ [][NextAPITokens]_vars

\* The token is one GenerateToken returned, no RevokeToken has succeeded on
\* it and no cleanup has removed it since, and its expiry has not passed
Live(n, token) ==
    /\ token \in DOMAIN issued[n]
    /\ \A e \in issued[n][token] : now <= e

\* C26: after every sequence of GenerateToken, RevokeToken,
\* CleanupExpiredTokens and time advance, ValidateToken(t) is true iff t was
\* returned by GenerateToken, has not been revoked or cleaned up, and its
\* expiry, if it has one, has not passed; RevokeToken of an unknown token
\* returns an error and changes nothing; CleanupExpiredTokens removes exactly
\* the expired tokens.
C26_ValidIffIssuedAndLive ==
    LET m == atm["node-1"]
        cleaned == CleanupExpiredTokens(m, now)
    IN  /\ \A token \in JoinTokens : APIValidateToken(m, token, now) <=> Live("node-1", token)
        /\ \A token \in JoinTokens :
               token \notin DOMAIN issued["node-1"]
               => APIRevokeToken(m, token) = [err |-> "token not found", tm |-> m]
        /\ DOMAIN cleaned.tokens = {token \in DOMAIN m.tokens : Live("node-1", token)}
        /\ \A token \in DOMAIN cleaned.tokens : cleaned.tokens[token] = m.tokens[token]
        /\ \A token \in JoinTokens : APIValidateToken(cleaned, token, now) <=> Live("node-1", token)

\* One token has expired and is still held, another is valid
C26_Witness ==
    LET m == atm["node-1"]
    IN  \E old \in DOMAIN m.tokens, new \in DOMAIN m.tokens :
            /\ ~APIValidateToken(m, old, now)
            /\ m.tokens[old].CreatedAt < now
            /\ \E e \in m.tokens[old].ExpiresAt : e >= m.tokens[old].CreatedAt
            /\ APIValidateToken(m, new, now)

-----------------------------------------------------------------------------
(* The API server of one agent, its Scheduler, its containers, its registry
   and its store, with a second node in the roster: SpecAPI *)

\* A Deployment has at most this many replicas
MaxReplicas == 2

\* An agent builds at most this many pod objects
MaxPodsMade == 3

\* The Deployment manifests clients post: default/web with one or two
\* replicas, with and without a node selector
DeploymentManifests ==
    {[Name |-> "web", Namespace |-> "default", Replicas |-> r,
      Template |-> [Labels |-> [app |-> "web"], NodeSelector |-> sel]]
     : r \in 1..MaxReplicas, sel \in {EmptyMap, [disk |-> "ssd"]}}

\* The Service manifest clients post
ServiceManifests ==
    {[Name |-> "web", Namespace |-> "default", Selector |-> [app |-> "web"],
      Ports |-> <<[Port |-> 80]>>]}

\* The Ingress manifest clients post
IngressManifests ==
    {[Name |-> "web", Namespace |-> "default", Rules |-> <<[Host |-> "example.com"]>>]}

\* The node chosen and what the runtime does, for each replica
Picks == [0..(MaxReplicas - 1) -> Nodes]

RuntimeOutcomes == {"running", "exited", "create fails", "start fails"}

Runtimes == [0..(MaxReplicas - 1) -> RuntimeOutcomes]

\* The snapshot a peer sends: default/web with two replicas and its Service
PeerAPIState ==
    ClusterStateOf(
        [EmptyStore EXCEPT
            !.deployments = MapOf({ParseDeployment(x) : x \in
                                {m \in DeploymentManifests :
                                    m.Replicas = MaxReplicas /\ m.Template.NodeSelector = EmptyMap}}),
            !.services = MapOf({ParseService(x) : x \in ServiceManifests}),
            !.lastModified = now])

\* The agent is stopped and started again: what the process held in memory
\* is gone, the store is loaded from the data directory, the containers are
\* still on the host and RecoverDeployments is yet to run
Restart(n) ==
    /\ n \in running
    /\ pc[n] = "idle"
    /\ api' = [api EXCEPT ![n] = StartedAPI(api[n])]
    /\ registry' = [registry EXCEPT ![n] = EmptyMap]
    /\ store' = [store EXCEPT ![n] = Load(disk[n])]
    /\ UNCHANGED <<now, running, nodes, nextSweep, net, disk, pc, nextSync, wrote,
                   agentVars, atm, issued, goVars>>

\* The agent has room for the pod objects of one more Deployment
RoomForPods(n) == api[n].made + MaxReplicas <= MaxPodsMade

NextAPI ==
    \/ \E x \in DeploymentManifests, picks \in Picks, runtime \in Runtimes :
           RoomForPods("node-1") /\ ApplyDeployment("node-1", x, picks, runtime)
    \/ \E x \in ServiceManifests : ApplyService("node-1", x)
    \/ \E x \in IngressManifests : ApplyIngress("node-1", x)
    \/ DeleteManifest("node-1", "default", "web")
    \/ \E picks \in Picks, runtime \in Runtimes :
           RoomForPods("node-1") /\ RecoverDeployments("node-1", picks, runtime)
    \/ Restart("node-1")
    \/ HandleStateSyncMessage("node-1", StateSyncMessage(PeerAPIState, now, "node-2"))
    \/ \E labels \in {EmptyMap, [disk |-> "ssd"]} : UpdateNodeLabels("node-1", "node-2", labels)

SpecAPI == InitStore /\ [][NextAPI]_vars

\* C22: after every apply of a Deployment, a re-apply included, and after
\* the recovery on restart, the Deployment record has exactly DesiredReplicas
\* pods in its pod list.  It is stated of an apply that returns no error and
\* of every recovery.
C22_PodsMatchDesiredReplicas ==
    LET a == api["node-1"]
        roster == nodes["node-1"]
        s == store["node-1"]
    IN  /\ \A x \in DeploymentManifests, picks \in Picks, runtime \in Runtimes :
               LET res == applyDeployment(a, roster, "node-1", x, picks, runtime, now)
                   dep == res.a.deployments[StoreKey(x.Namespace, x.Name)]
               IN  (PicksAllowed(roster, x, picks) /\ res.err = "")
                   => Len(dep.Pods) = dep.DesiredReplicas
        /\ \A picks \in Picks, runtime \in Runtimes :
               LET done == RecoverEach(a, s, roster, "node-1", ListDeployments(s),
                                       picks, runtime, now)
               IN  \A key \in DOMAIN s.deployments :
                       /\ Len(done.a.deployments[key].Pods)
                              = done.a.deployments[key].DesiredReplicas
                       /\ Len(done.store.deployments[key].Pods)
                              = done.store.deployments[key].DesiredReplicas

\* The pods agent n knows: those of its Scheduler and of its Deployments
KnownPods(n) ==
    GetAllPods(api[n])
        \cup UNION {{api[n].heap[api[n].deployments[key].Pods[j]]
                      : j \in DOMAIN api[n].deployments[key].Pods}
                    : key \in DOMAIN api[n].deployments}

\* The registry of agent n holds an endpoint for the pod under the service
HasEndpoint(n, service, pod) ==
    LET key == serviceKey(service.Name, service.Namespace)
    IN  /\ key \in DOMAIN registry[n]
        /\ endpointID(service.Namespace, service.Name, pod.ID) \in DOMAIN registry[n][key]

\* C23: at any time after a Service has been applied, the registry holds an
\* endpoint for a pod under that Service iff the labels of the pod match the
\* selector of the Service and the pod is Running: a Pending or Failed pod has
\* none, a matching Running pod has one, whether it was created before or
\* after the Service.
C23_EndpointIffMatchingAndRunning ==
    \A key \in DOMAIN api["node-1"].services :
        LET service == api["node-1"].services[key]
        IN  \A pod \in KnownPods("node-1") :
                HasEndpoint("node-1", service, pod)
                <=> (matchesSelector(pod.Labels, service.Selector) /\ pod.State = "Running")

\* C24: scheduling a pod whose non-empty node selector matches no node of
\* the roster returns an error and writes no partial state: the pod gets no
\* node name, nothing is added to the pod set of the Scheduler, no container
\* is created, and the apply that hit the error leaves no record of that
\* Deployment in the tables of the API server.
C24_NoMatchWritesNothing ==
    LET a == api["node-1"]
        roster == nodes["node-1"]
    IN  \A x \in DeploymentManifests, picks \in Picks, runtime \in Runtimes :
            LET key == StoreKey(x.Namespace, x.Name)
                selector == x.Template.NodeSelector
                res == applyDeployment(a, roster, "node-1", x, picks, runtime, now)
            IN  (DOMAIN selector # {} /\ findNodeBySelector(roster, selector) = {})
                => /\ res.err # ""
                   /\ res.a.pods = a.pods
                   /\ \A ref \in DOMAIN res.a.heap \ DOMAIN a.heap :
                          res.a.heap[ref].NodeName = ""
                   /\ res.a.containers = a.containers
                   /\ key \notin DOMAIN a.deployments => key \notin DOMAIN res.a.deployments

\* The pod objects the API server b holds and a did not
NewPodRefs(a, b) == DOMAIN b.heap \ DOMAIN a.heap

\* Replica j of the Deployment has been scheduled between a and b and, when
\* it is local and the runtime does not fail on it, created
ReplicaScheduled(a, b, local, name, j, outcome) ==
    \E ref \in NewPodRefs(a, b) \cap AllPodRefs(b) :
        /\ b.heap[ref].Name = name \o "-" \o ToString(j)
        /\ b.heap[ref].NodeName # ""
        /\ (b.heap[ref].NodeName = local /\ outcome \notin {"create fails", "start fails"})
               => b.heap[ref].ID \in DOMAIN b.containers

\* C27: a runtime failure on one replica does not abort the apply: when the
\* creation or the start of the container of replica i fails, replicas i+1
\* to N-1 are still scheduled and, when local, created and started.
C27_FailedReplicaDoesNotAbort ==
    LET a == api["node-1"]
        roster == nodes["node-1"]
    IN  \A x \in DeploymentManifests, picks \in Picks, runtime \in Runtimes :
            LET res == applyDeployment(a, roster, "node-1", x, picks, runtime, now)
            IN  (PicksAllowed(roster, x, picks)
                    /\ Candidates(roster, x.Template.NodeSelector) # {})
                => \A j \in 0..(x.Replicas - 1) :
                       ReplicaScheduled(a, res.a, "node-1", x.Name, j, runtime[j])

\* Agent n handles an ApplyManifest or a DeleteManifest
HandlesManifest(n) ==
    \/ \E x \in DeploymentManifests, picks \in Picks, runtime \in Runtimes :
           ApplyDeployment(n, x, picks, runtime)
    \/ \E x \in ServiceManifests : ApplyService(n, x)
    \/ \E x \in IngressManifests : ApplyIngress(n, x)
    \/ DeleteManifest(n, "default", "web")

\* The Deployments, Services and Ingresses of the store of agent n are those
\* of the tables of its API server
StoreHoldsTables(n) ==
    /\ DOMAIN store[n].deployments = DOMAIN api[n].deployments
    /\ \A key \in DOMAIN api[n].deployments :
           /\ store[n].deployments[key].DesiredReplicas = api[n].deployments[key].DesiredReplicas
           /\ store[n].deployments[key].Template = api[n].deployments[key].Template
    /\ store[n].services = api[n].services
    /\ store[n].ingresses = api[n].ingresses
    /\ Load(disk[n]) = store[n]

\* C28: after every ApplyManifest and DeleteManifest an agent handles, the
\* Deployments, Services and Ingresses of its store are exactly those of the
\* tables of its API server, in memory and on disk: an applied resource has
\* been saved and a deleted one removed.
C28_StoreFollowsManifests ==
    [][HandlesManifest("node-1") => StoreHoldsTables("node-1")']_vars

\* C29: once DeleteManifest has handled a Deployment, none of the pods of
\* that Deployment is left in the pod set of the scheduler (GetAllPods,
\* GetPod), whether it was created on this node or only scheduled to another
\* one, so a Service applied later registers none of them.
C29_DeletedPodsLeaveScheduler ==
    LET a == api["node-1"]
        key == StoreKey("default", "web")
    IN  key \in DOMAIN a.deployments
        => LET b == deleteDeployment(a, "node-1", key)
               refs == a.deployments[key].Pods
           IN  \A k \in 1..Len(refs) :
                   /\ refs[k] \notin AllPodRefs(b)
                   /\ SchedulerGetPod(b, a.heap[refs[k]].ID) = {}
                   /\ \A x \in ServiceManifests :
                          b.heap[refs[k]] \notin ServicePods(b, ParseService(x))

\* C30: once an apply has created and started a container on this node for
\* a pod, the record of the pod carries the container id of the runtime and
\* the state the runtime reports (Running, not the Pending of the template),
\* and the scheduler shows the same: GetPod of the container id finds it.
C30_LocalPodCarriesRuntimeIDAndState ==
    LET a == api["node-1"]
        roster == nodes["node-1"]
    IN  \A x \in DeploymentManifests, picks \in Picks, runtime \in Runtimes :
            LET b == applyDeployment(a, roster, "node-1", x, picks, runtime, now).a
            IN  PicksAllowed(roster, x, picks)
                => \A ref \in NewPodRefs(a, b) :
                       (b.heap[ref].NodeName = "node-1" /\ ContainerID(ref) \in DOMAIN b.containers
                           /\ b.containers[ContainerID(ref)] \in {"running", "exited"})
                       => /\ b.heap[ref].ID = ContainerID(ref)
                          /\ b.heap[ref].State = GetPodStatus(b, ContainerID(ref))
                          /\ SchedulerGetPod(b, ContainerID(ref)) = {b.heap[ref]}

\* "<address of a>:<port>" as a client can dial it
PeerAddress(a, port) == NodeAddress(a) \o ":" \o ToString(port)

\* C25: when agent a registers an endpoint for a pod that runs on it and the
\* service_update reaches member b, GetServiceAddresses on b returns
\* "<address of a>:<service port>" for as long as the endpoint is fresh, and
\* a deregister for the same pod that reaches b removes the endpoint.
C25_RegistrationReachesPeers ==
    /\ \A a \in Nodes : \A b \in Nodes \ {a} : \A key \in DOMAIN registry[b] :
           \A id \in DOMAIN registry[b][key] :
               LET endpoint == registry[b][key][id]
                   got == GetServiceAddresses(b, endpoint.ServiceName, endpoint.Namespace)
               IN  (endpoint.NodeName = a /\ IsFresh(endpoint))
                   => got.err = "" /\ BagIn(PeerAddress(a, endpoint.Port), got.addresses)
    /\ \A m \in net :
           (m.data.type = "service_update" /\ m.data.action = "deregister")
           => LET after == ApplyServiceUpdate(registry[m.to], m.data, now)
                  key == serviceKey(m.data.serviceName, m.data.namespace)
                  id == endpointID(m.data.namespace, m.data.serviceName, m.data.podID)
              IN  ~(key \in DOMAIN after /\ id \in DOMAIN after[key])

-----------------------------------------------------------------------------
(* Revocation of join tokens, under SpecTokens *)

\* C34: revoking a join token takes effect: once RevokeToken(t) has run on a
\* token manager, ValidateToken(t) is false on it, whatever other tokens it
\* holds and also when t was the only token it had issued.
C34_RevokedTokenIsRefused ==
    \A n \in running : \A token \in ListTokens(tm[n]) :
        ~ValidateToken(RevokeToken(tm[n], token), token)

-----------------------------------------------------------------------------
(* SRV answers, under SpecDNS *)

\* _http._tcp.<svc>.<ns>.<zone>.
SRVName(svc, ns) ==
    <<"_", "h", "t", "t", "p", ".", "_", "t", "c", "p", ".">> \o ShortName(svc, ns)

\* How many records of a section satisfy P
CountIn(section, P(_)) ==
    BagCardinality([rr \in {x \in BagToSet(section) : P(x)} |-> section[rr]])

\* C33: the answer to an SRV query that resolves to n endpoints holds n SRV
\* records whose priorities are 10, 20, ..., 10*n, one record per priority,
\* each with weight 10, with the port of an endpoint of the service (as many
\* records per port as endpoints have it) and with target <svc>.<ns>.<zone>.
C33_SRVPrioritiesStepByTen ==
    \A svc \in DNSServices, ns \in DNSNamespaces :
        LET got == GetServiceEndpoints("node-1", Text(svc), Text(ns))
            endpoints == registry["node-1"][serviceKey(Text(svc), Text(ns))]
            n == Cardinality(got.result)
        IN  got.err = ""
            => \A m \in handleDNS("node-1", Query(SRVName(svc, ns), "SRV"), NoExchange) :
                   /\ BagCardinality(m.Answer) = n
                   /\ \A rr \in BagToSet(m.Answer) :
                          /\ rr.Rrtype = "SRV"
                          /\ rr.Weight = 10
                          /\ rr.Target = Text(ShortName(svc, ns))
                   /\ \A k \in 1..n :
                          LET HasPriority(rr) == rr.Priority = 10 * k
                          IN  CountIn(m.Answer, HasPriority) = 1
                   /\ \A id \in got.result :
                          LET HasPort(rr) == rr.Port = endpoints[id].Port
                          IN  CountIn(m.Answer, HasPort)
                                  = Cardinality({x \in got.result :
                                                    endpoints[x].Port = endpoints[id].Port})

-----------------------------------------------------------------------------
(* persist with I/O errors, and a state.json that does not parse:
   SpecFaults *)

\* os.WriteFile(tmpFile, ...) returns an error, before it has created the
\* file or after it has written a part of it: persist returns the error,
\* the mutator returns it and releases Storage.mu
persistWriteFails(n) ==
    /\ n \in running
    /\ pc[n] \in {"persist", "writing"}
    /\ pc' = [pc EXCEPT ![n] = "idle"]
    /\ UNCHANGED <<now, running, nodes, registryVars, wrote, store, disk>>

\* os.Rename(tmpFile, stateFile) returns an error: both files stay as they
\* are and the mutator returns the error
persistRenameFails(n) ==
    /\ n \in running
    /\ pc[n] = "written"
    /\ pc' = [pc EXCEPT ![n] = "idle"]
    /\ UNCHANGED <<now, running, nodes, registryVars, wrote, store, disk>>

\* A state.json that was cut short: the first bytes of a snapshot
DamagedDir == [state |-> PartFile(MarshalState(ClusterStateOf(RecoveredStore))), tmp |-> NoFile]

\* The agent is about to start on a data directory that is empty or holds a
\* state.json that does not parse
InitFaults ==
    /\ now = StartTime
    /\ running = {}
    /\ nodes = [n \in Nodes |-> Roster(n, Nodes)]
    /\ registry = [n \in Nodes |-> EmptyMap]
    /\ nextSweep = [n \in Nodes |-> SweepSeconds]
    /\ net = {}
    /\ store = [n \in Nodes |-> EmptyStore]
    /\ disk \in {[n \in Nodes |-> IF n = "node-1" THEN d ELSE EmptyDir]
                 : d \in {EmptyDir, DamagedDir}}
    /\ pc = [n \in Nodes |-> "down"]
    /\ nextSync = [n \in Nodes |-> now + SyncSeconds]
    /\ wrote = [n \in Nodes |-> EmptyMap]
    /\ InitAgent

\* What the mutators of this specification are given: the two versions of
\* default/web, its key, and a peer's snapshots that are newer than the store
FaultObjs == {x \in DeploymentObjs : x.Namespace = "default"}

FaultSnapshots ==
    {state \in PersistSnapshots :
        /\ state.LastModified = MaxStoreTime + 1
        /\ DOMAIN state.Ingresses = {}
        /\ \A k \in DOMAIN state.Deployments : state.Deployments[k] = PeerDeployment}

NextFaults ==
    \/ NewStorage("node-1")
    \/ \E x \in FaultObjs : BeginSave("node-1", "deployments", x)
    \/ BeginDelete("node-1", "deployments", "default", "web")
    \/ \E state \in FaultSnapshots : BeginMerge("node-1", state)
    \/ persistOpenTmp("node-1")
    \/ persistWriteTmp("node-1")
    \/ persistRename("node-1")
    \/ persistReturn("node-1")
    \/ persistWriteFails("node-1")
    \/ persistRenameFails("node-1")
    \/ StoreTick

SpecFaults == InitFaults /\ [][NextFaults]_vars

\* The stores a Save, a Delete or a merging MergeState may leave in memory
Mutations(s, d, t) ==
    {Put(s, "deployments", x, t) : x \in FaultObjs}
        \cup {Remove(s, "deployments", "default", "web", t)}
        \cup {MergeState(s, d, state, t).store : state \in FaultSnapshots}

\* persist has returned an error to a mutator of agent n in this step
PersistFailed(n) ==
    /\ pc[n] \in {"persist", "writing", "written"}
    /\ pc'[n] = "idle"

(* C36: a failed write or rename of the snapshot.  The mutator has changed
   its map before it calls persist; when os.WriteFile or os.Rename fails,
   the store keeps that change (Get, List and the next state_sync show it)
   and state.json keeps the bytes it had; and the rename of a persist that
   succeeds puts the whole current store into state.json, the change of
   the failed persist included. *)
C36_FailedPersistKeepsMutation ==
    [][\A n \in {"node-1"} :
          /\ (pc[n] = "idle" /\ pc'[n] = "persist")
                => /\ store'[n] \in Mutations(store[n], disk[n], now)
                   /\ store'[n].lastModified = now
          /\ PersistFailed(n)
                => /\ store'[n] = store[n]
                   /\ GetState(n)' = GetState(n)
                   /\ disk'[n].state = disk[n].state
          /\ (pc[n] = "written" /\ pc'[n] = "renamed")
                => Parsed(disk'[n].state) = {ClusterStateOf(store[n])}]_vars

\* A write has failed: the agent is between two mutators, the part of the
\* snapshot os.WriteFile wrote is still in state.json.tmp, the store holds
\* a deployment and state.json, persisted whole before, does not hold it.
C36_Witness ==
    LET d == disk["node-1"]
    IN  /\ "node-1" \in running
        /\ pc["node-1"] = "idle"
        /\ d.tmp.exists
        /\ ~d.tmp.complete
        /\ d.state.exists
        /\ d.state.complete
        /\ DOMAIN store["node-1"].deployments # {}
        /\ \A state \in Parsed(d.state) : DOMAIN state.Deployments = {}

(* C35: a state.json that does not parse.  NewStorage returns a store that
   is empty, and the file is not destroyed: no step of the store, at
   startup or in a later Save, Delete or MergeState, overwrites or removes
   its bytes. *)
C35_CorruptFileIsKept ==
    [][\A n \in {"node-1"} :
          (disk[n].state.exists /\ ~disk[n].state.complete)
          => /\ disk'[n].state = disk[n].state
             /\ (n \notin running /\ n \in running') => store'[n] = EmptyStore]_vars

-----------------------------------------------------------------------------
(* The receive hook on payloads of any kind: SpecReceive *)

\* The bytes of a payload: a JSON document, or bytes that are no JSON.
\* `mistyped` names the members whose JSON value is of another type than
\* the one broadcastServiceUpdate gives them (a number for a string, ...)
JSONBytes(doc) == [valid |-> TRUE, doc |-> doc, mistyped |-> {}]

NotJSON == [valid |-> FALSE, doc |-> [type |-> ""], mistyped |-> {}]

\* The members HandleServiceUpdate reads with a type assertion, in the order
\* in which it reads them
AssertedFields ==
    <<"action", "serviceName", "namespace", "podID", "podName", "nodeName",
      "address", "port", "healthy">>

\* update[field].(T) panics: the member is absent (a nil interface) or holds
\* a value of another type
AssertionPanics(payload, field) ==
    field \notin DOMAIN payload.doc \/ field \in payload.mistyped

\* Discovery.HandleServiceUpdate on the bytes of a payload: its error,
\* whether it panics instead of returning, and the services map it leaves
HandleServiceUpdate(services, payload, t) ==
    IF ~payload.valid
    THEN [err |-> "failed to unmarshal service update", panic |-> FALSE, services |-> services]
    ELSE IF "type" \notin DOMAIN payload.doc \/ "type" \in payload.mistyped
            \/ payload.doc.type # "service_update"
    THEN [err |-> "", panic |-> FALSE, services |-> services]
    ELSE IF \E i \in DOMAIN AssertedFields : AssertionPanics(payload, AssertedFields[i])
    THEN [err |-> "", panic |-> TRUE, services |-> services]
    ELSE [err |-> "", panic |-> FALSE,
          services |-> ApplyServiceUpdate(services, payload.doc, t)]

\* A HandleStateSyncMessage that merges every document that carries a state
HandleStateSyncAnyType(s, d, payload, t) ==
    IF ~payload.valid \/ payload.doc.type = "service_update"
    THEN [err |-> "failed to unmarshal state sync message", store |-> s, disk |-> d]
    ELSE IF "state" \in DOMAIN payload.doc /\ payload.doc.state # {}
    THEN LET incomingState == UnmarshalState(CHOOSE doc \in payload.doc.state : TRUE)
             merged == MergeState(s, d, incomingState, t)
         IN  [err |-> "", store |-> merged.store, disk |-> merged.disk]
    ELSE [err |-> "", store |-> s, disk |-> d]

\* Storage.HandleStateSyncMessage on the bytes of a payload: its error, the
\* store and the data directory it leaves.  json.Unmarshal fails on bytes
\* that are no JSON and on a service_update, whose "timestamp" is a number
\* and no time.Time
HandleStateSyncBytes(s, d, payload, t) ==
    IF ~payload.valid \/ payload.doc.type = "service_update"
    THEN [err |-> "failed to unmarshal state sync message", store |-> s, disk |-> d]
    ELSE IF payload.doc.type = "state_sync" /\ payload.doc.state # {}
    THEN LET incomingState == UnmarshalState(CHOOSE doc \in payload.doc.state : TRUE)
             merged == MergeState(s, d, incomingState, t)
         IN  [err |-> "", store |-> merged.store, disk |-> merged.disk]
    ELSE [err |-> "", store |-> s, disk |-> d]

\* The closure main.go passes to SetMessageHandler: both handlers run, their
\* errors are dropped and nil is returned; a panic of the first handler
\* unwinds the closure before the second runs
messageHandler(n, payload) ==
    LET updated == HandleServiceUpdate(registry[n], payload, now)
        synced == HandleStateSyncBytes(store[n], disk[n], payload, now)
    IN  IF updated.panic
        THEN [err |-> "", panic |-> TRUE, services |-> registry[n],
              store |-> store[n], disk |-> disk[n]]
        ELSE [err |-> "", panic |-> FALSE, services |-> updated.services,
              store |-> synced.store, disk |-> synced.disk]

\* memberlist has a payload for agent n
Arrive(n, payload) ==
    /\ n \in running
    /\ net = {}
    /\ net' = {[to |-> n, data |-> payload]}
    /\ UNCHANGED <<now, running, nodes, registry, nextSweep, storeVars>>

\* delegate.NotifyMsg of an agent without encryption on that payload.  No
\* frame between memberlist's goroutine and the handler recovers a panic:
\* it ends the process, and what the agent held in memory is gone
NotifyPayload(m) ==
    LET n == m.to
        handled == messageHandler(n, m.data)
    IN  /\ m \in net
        /\ n \in running
        /\ pc[n] = "idle"
        /\ net' = net \ {m}
        /\ IF handled.panic
           THEN /\ running' = running \ {n}
                /\ registry' = [registry EXCEPT ![n] = EmptyMap]
                /\ store' = [store EXCEPT ![n] = EmptyStore]
                /\ pc' = [pc EXCEPT ![n] = "down"]
                /\ UNCHANGED disk
           ELSE /\ registry' = [registry EXCEPT ![n] = handled.services]
                /\ store' = [store EXCEPT ![n] = handled.store]
                /\ disk' = [disk EXCEPT ![n] = handled.disk]
                /\ UNCHANGED <<running, pc>>
        /\ UNCHANGED <<now, nodes, nextSweep, nextSync, wrote, agentVars, apiVars>>

\* What reaches node-1: bytes that are no JSON, documents of types the agent
\* does not know (one of them with a snapshot in it), a state_request, and
\* the service_update and state_sync documents of node-2
ReceivedPayloads ==
    {NotJSON}
        \cup {JSONBytes([type |-> "ping"])}
        \cup {JSONBytes([msg EXCEPT !.type = "state_push"]) : msg \in
                 {StateSyncMessage(state, state.LastModified, "node-2") : state \in FaultSnapshots}}
        \cup {JSONBytes(StateRequestMessage(now, "node-2"))}
        \cup {JSONBytes(StateSyncMessage(state, state.LastModified, "node-2"))
              : state \in FaultSnapshots}
        \cup {JSONBytes(msg) : msg \in {x \in PeerUpdates : x.serviceName = "web"}}

\* service_update documents node-2 never sends: one without an action, one
\* whose podID is a number, one without a port
MalformedUpdates ==
    UNION {{JSONBytes([f \in DOMAIN msg \ {"action"} |-> msg[f]]),
            [JSONBytes(msg) EXCEPT !.mistyped = {"podID"}],
            JSONBytes([f \in DOMAIN msg \ {"port"} |-> msg[f]])}
           : msg \in {x \in PeerUpdates : x.serviceName = "web" /\ x.action = "register"}}

NextReceive ==
    \/ \E payload \in ReceivedPayloads \cup MalformedUpdates : Arrive("node-1", payload)
    \/ NewStorage("node-1")
    \/ \E m \in net : NotifyPayload(m)
    \/ \E s \in DiscoveryServices, p \in PodObjs : RegisterService("node-1", s, p)
    \/ \E x \in FaultObjs : SaveDeployment("node-1", x)
    \/ StoreTick

SpecReceive == InitStore /\ [][NextReceive]_vars

\* The payload is a document of the given type
HasType(payload, type) == payload.valid /\ payload.doc.type = type

(* C37: what the receive hook leaves alone.  A payload that is no JSON, or
   whose type is neither service_update nor state_sync, changes neither the
   registry nor the store (in memory and on disk), and the hook reports no
   error; a state_sync never changes the registry and a service_update
   never changes the store. *)
C37_ForeignPayloadsChangeNothing ==
    \A n \in {"node-1"} : \A payload \in ReceivedPayloads :
        LET handled == messageHandler(n, payload)
            keepsRegistry == handled.services = registry[n]
            keepsStore == handled.store = store[n] /\ handled.disk = disk[n]
        IN  /\ handled.err = ""
            /\ (~HasType(payload, "service_update") /\ ~HasType(payload, "state_sync"))
                   => keepsRegistry /\ keepsStore
            /\ HasType(payload, "state_sync") => keepsRegistry
            /\ HasType(payload, "service_update") => keepsStore

\* A document of an unknown type that carries a snapshot newer than the
\* store has reached an agent that holds an endpoint and a deployment
C37_Witness ==
    /\ DOMAIN registry["node-1"] # {}
    /\ DOMAIN store["node-1"].deployments # {}
    /\ \E m \in net :
           /\ m.to = "node-1"
           /\ HasType(m.data, "state_push")
           /\ \E doc \in m.data.doc.state :
                  /\ doc.last_modified > store["node-1"].lastModified
                  /\ doc.deployments # {}

(* C38: a service_update that lacks a member or carries one of the wrong
   JSON type (no action, a numeric podID, no port) is rejected without
   crashing the agent: the handler returns, the registry is as it was, and
   the agent goes on to handle later payloads. *)
C38_MalformedUpdateIsRejected ==
    [][\A m \in net :
          (m.data \in MalformedUpdates /\ NotifyPayload(m))
          => /\ ~messageHandler(m.to, m.data).panic
             /\ registry'[m.to] = registry[m.to]
             /\ m.to \in running']_vars

-----------------------------------------------------------------------------
(* Storage.mu step by step: the periodic BroadcastState against the
   mutators and readers of the same Storage: SpecLocks *)

\* Goroutine g of agent n is in no call and enters one
Call(n, g, op, arg) ==
    /\ n \in running
    /\ calls[n][g].pc = "idle"
    /\ calls' = [calls EXCEPT ![n][g] =
                    [op |-> op, pc |-> "call", arg |-> arg, got |-> << >>, seen |-> {}]]
    /\ UNCHANGED <<now, running, nodes, registry, nextSweep, net, store, disk, pc,
                   nextSync, wrote, agentVars, api, atm, issued, mu>>

\* Goroutine g of agent n is at step `at` of the call `op`
In(n, g, op, at) ==
    /\ n \in running
    /\ calls[n][g].op = op
    /\ calls[n][g].pc = at

\* history: every BroadcastState that has taken its read lock and has not
\* returned has been concurrent with the state the store is left in
Witnessed(n, g, c, s2) ==
    [h \in Goroutines |->
        IF h = g THEN c
        ELSE IF calls[n][h].seen # {}
        THEN [calls[n][h] EXCEPT !.seen = @ \cup {ClusterStateOf(s2)}]
        ELSE calls[n][h]]

\* BroadcastState: s.mu.RLock()
BroadcastStateRLock(n, g) ==
    /\ In(n, g, "BroadcastState", "call")
    /\ CanRLock(mu[n].storage)
    /\ mu' = [mu EXCEPT ![n].storage = RLock(@, g)]
    /\ calls' = [calls EXCEPT ![n][g].pc = "GetState",
                              ![n][g].seen = {ClusterStateOf(store[n])}]
    /\ UNCHANGED <<now, running, nodes, registry, nextSweep, net, store, disk, pc,
                   nextSync, wrote, agentVars, api, atm, issued>>

\* GetState, called by BroadcastState: it takes the read lock again, builds
\* a ClusterState that holds the four maps themselves and a copy of
\* lastModified, and releases that read lock
GetStateRLocked(n, g) ==
    /\ In(n, g, "BroadcastState", "GetState")
    /\ CanRLock(mu[n].storage)
    /\ calls' = [calls EXCEPT ![n][g].pc = "RUnlock",
                              ![n][g].got = [LastModified |-> store[n].lastModified]]
    /\ UNCHANGED <<now, running, nodes, registry, nextSweep, net, store, disk, pc,
                   nextSync, wrote, agentVars, api, atm, issued, mu>>

\* BroadcastState: s.mu.RUnlock()
BroadcastStateRUnlock(n, g) ==
    /\ In(n, g, "BroadcastState", "RUnlock")
    /\ mu' = [mu EXCEPT ![n].storage = RUnlock(@, g)]
    /\ calls' = [calls EXCEPT ![n][g].pc = "Marshal"]
    /\ UNCHANGED <<now, running, nodes, registry, nextSweep, net, store, disk, pc,
                   nextSync, wrote, agentVars, api, atm, issued>>

\* What json.Marshal(msg) reads, the lock released: the maps as they are
\* now, and the lastModified GetState copied
SnapshotMarshalled(n, g) ==
    [ClusterStateOf(store[n]) EXCEPT !.LastModified = calls[n][g].got.LastModified]

\* BroadcastState: json.Marshal(msg) and broadcast(data)
BroadcastStateSend(n, g) ==
    /\ In(n, g, "BroadcastState", "Marshal")
    /\ net' = net \cup Broadcast(n, StateSyncMessage(SnapshotMarshalled(n, g), now, n))
    /\ calls' = [calls EXCEPT ![n][g].pc = "idle",
                              ![n][g].got = << >>,
                              ![n][g].seen = {}]
    /\ UNCHANGED <<now, running, nodes, registry, nextSweep, store, disk, pc,
                   nextSync, wrote, agentVars, api, atm, issued, mu>>

\* ListDeployments: RLock, the copy of the map's values, RUnlock
ListDeploymentsLocked(n, g) ==
    /\ In(n, g, "ListDeployments", "call")
    /\ CanRLock(mu[n].storage)
    /\ calls' = [calls EXCEPT ![n][g].pc = "idle",
                              ![n][g].got = ClusterStateOf(store[n])]
    /\ UNCHANGED <<now, running, nodes, registry, nextSweep, net, store, disk, pc,
                   nextSync, wrote, agentVars, api, atm, issued, mu>>

\* A mutator (SaveDeployment, DeleteDeployment, MergeState): s.mu.Lock() up
\* to its wait for the readers
MutatorAwaitLock(n, g) ==
    /\ n \in running
    /\ calls[n][g].op \in {"SaveDeployment", "DeleteDeployment", "MergeState"}
    /\ calls[n][g].pc = "call"
    /\ CanAwaitLock(mu[n].storage)
    /\ mu' = [mu EXCEPT ![n].storage = AwaitLock(@, g)]
    /\ calls' = [calls EXCEPT ![n][g].pc = "Lock"]
    /\ UNCHANGED <<now, running, nodes, registry, nextSweep, net, store, disk, pc,
                   nextSync, wrote, agentVars, api, atm, issued>>

\* The store and the data directory the mutator of a call leaves
Mutated(n, c) ==
    IF c.op = "SaveDeployment"
    THEN LET s2 == Put(store[n], "deployments", c.arg, now)
         IN  [store |-> s2, disk |-> persist(s2, disk[n])]
    ELSE IF c.op = "DeleteDeployment"
    THEN LET s2 == Remove(store[n], "deployments", c.arg.Namespace, c.arg.Name, now)
         IN  [store |-> s2, disk |-> persist(s2, disk[n])]
    ELSE MergeState(store[n], disk[n], c.arg, now)

\* The mutator has the lock: it changes its map and lastModified, persists,
\* and its deferred Unlock runs
MutatorLocked(n, g) ==
    /\ n \in running
    /\ calls[n][g].op \in {"SaveDeployment", "DeleteDeployment", "MergeState"}
    /\ calls[n][g].pc = "Lock"
    /\ CanLock(mu[n].storage, g)
    /\ LET done == Mutated(n, calls[n][g])
       IN  /\ store' = [store EXCEPT ![n] = done.store]
           /\ disk' = [disk EXCEPT ![n] = done.disk]
           /\ calls' = [calls EXCEPT ![n] =
                          Witnessed(n, g, [calls[n][g] EXCEPT !.pc = "idle"], done.store)]
    /\ mu' = [mu EXCEPT ![n].storage = Unlock(@)]
    /\ UNCHANGED <<now, running, nodes, registry, nextSweep, net, pc,
                   nextSync, wrote, agentVars, api, atm, issued>>

\* The state_sync packets have left for the peers
PacketsLeave ==
    /\ net # {}
    /\ net' = {}
    /\ UNCHANGED <<now, running, nodes, registry, nextSweep, storeVars>>

\* What goroutine g of agent n does next in the call it is in
StorageStep(n, g) ==
    \/ BroadcastStateRLock(n, g)
    \/ GetStateRLocked(n, g)
    \/ BroadcastStateRUnlock(n, g)
    \/ BroadcastStateSend(n, g)
    \/ ListDeploymentsLocked(n, g)
    \/ MutatorAwaitLock(n, g)
    \/ MutatorLocked(n, g)

\* The calls the goroutines of node-1 make: g1 is the goroutine of
\* StartPeriodicSync and a reader, g2 a handler that mutates
NextLocks ==
    \/ net = {} /\ Call("node-1", "g1", "BroadcastState", << >>)
    \/ Call("node-1", "g1", "ListDeployments", << >>)
    \/ \E x \in FaultObjs : Call("node-1", "g2", "SaveDeployment", x)
    \/ \E x \in FaultObjs : Call("node-1", "g2", "DeleteDeployment", x)
    \/ \E state \in FaultSnapshots : Call("node-1", "g2", "MergeState", state)
    \/ \E g \in Goroutines : StorageStep("node-1", g)
    \/ PacketsLeave
    \/ StoreTick

\* The Go scheduler runs every goroutine that can take a step, and packets
\* leave
FairLocks ==
    /\ \A g \in Goroutines : WF_vars(StorageStep("node-1", g))
    /\ WF_vars(PacketsLeave)

SpecLocks == InitStore /\ [][NextLocks]_vars /\ FairLocks

\* C32: BroadcastState does not deadlock against the mutators of the same
\* Storage: whatever the interleaving of the periodic BroadcastState with
\* Save, Delete and MergeState calls, every call returns.
C32_EveryCallReturns ==
    \A g \in Goroutines : (calls["node-1"][g].pc # "idle") ~> (calls["node-1"][g].pc = "idle")

(* C31: within one agent the mutators of the store are serialized, and what
   a reader returns (List, and the snapshot BroadcastState marshals and
   sends) is the four maps and last_modified as they were at one moment of
   the call, before or after each concurrent Save, Delete or MergeState,
   never a mixture of two moments. *)
C31_ReadersSeeOneMoment ==
    [][\A g \in Goroutines :
          /\ ListDeploymentsLocked("node-1", g)
                => calls'["node-1"][g].got = ClusterStateOf(store["node-1"])
          /\ BroadcastStateSend("node-1", g)
                => \A m \in net' : \A doc \in m.data.state :
                       UnmarshalState(doc) \in calls["node-1"][g].seen
          /\ MutatorLocked("node-1", g)
                => \A h \in Goroutines \ {g} : mu["node-1"].storage.readers[h] = 0]_vars

-----------------------------------------------------------------------------
(* package ingress: handleRequest against AddIngress and RemoveIngress on
   IngressController.mu: SpecIngress.  A path is the sequence of its
   characters; a PathType is "" where the pointer is nil *)

\* len(requestPath) >= len(ingressPath) && requestPath[:len(ingressPath)] == ingressPath
matchesPath(requestPath, ingressPath, pathType) ==
    IF ingressPath = << >> THEN TRUE
    ELSE IF pathType = "" THEN HasPrefix(requestPath, ingressPath)
    ELSE IF pathType = "Exact" THEN requestPath = ingressPath
    ELSE IF pathType \in {"Prefix", "ImplementationSpecific"}
    THEN HasPrefix(requestPath, ingressPath)
    ELSE FALSE

\* The paths of one rule from the k-th on: the first that matches, if any
RECURSIVE MatchPaths(_, _, _)
MatchPaths(paths, path, k) ==
    IF k > Len(paths) THEN {}
    ELSE IF matchesPath(path, paths[k].Path, paths[k].PathType) THEN {paths[k]}
    ELSE MatchPaths(paths, path, k + 1)

\* The rules of one Ingress from the k-th on: the path of the first rule of
\* this host, or of any host, that has a matching path
RECURSIVE MatchRules(_, _, _, _)
MatchRules(rules, host, path, k) ==
    IF k > Len(rules) THEN {}
    ELSE LET found == IF rules[k].Host = host \/ rules[k].Host = ""
                      THEN MatchPaths(rules[k].Paths, path, 1)
                      ELSE {}
         IN  IF found # {} THEN found ELSE MatchRules(rules, host, path, k + 1)

\* for _, ingress := range ic.rules: the loop stops at the first Ingress
\* with a match, in the order the map is walked
Matches(n, host, path) ==
    UNION {{[ingress |-> api[n].rules[key], path |-> p] :
               p \in MatchRules(api[n].rules[key].Rules, host, path, 1)} :
           key \in DOMAIN api[n].rules}

\* ic.roundRobinIdx[proxyKey] of a Go map: 0 where the key is missing
RoundRobinIdx(a, proxyKey) ==
    IF proxyKey \in DOMAIN a.roundRobinIdx THEN a.roundRobinIdx[proxyKey] ELSE 0

\* The address handleRequest proxies to
Target(n, endpoint) ==
    IF endpoint.NodeName = n
    THEN [host |-> "localhost", port |-> endpoint.Port]
    ELSE [host |-> endpoint.Address, port |-> endpoint.Port]

\* handleRequest: ic.mu.RLock(), with its deferred RUnlock pending
handleRequestRLock(n, g) ==
    /\ In(n, g, "handleRequest", "call")
    /\ CanRLock(mu[n].ingress)
    /\ mu' = [mu EXCEPT ![n].ingress = RLock(@, g)]
    /\ calls' = [calls EXCEPT ![n][g].pc = "match"]
    /\ UNCHANGED <<now, running, nodes, registry, nextSweep, net, store, disk, pc,
                   nextSync, wrote, agentVars, api, atm, issued>>

\* return: the response is written and the deferred ic.mu.RUnlock() runs
Respond(n, g, response) ==
    /\ mu' = [mu EXCEPT ![n].ingress = RUnlock(@, g)]
    /\ calls' = [calls EXCEPT ![n][g].pc = "idle", ![n][g].got = response]

\* handleRequest under the read lock: the rule, then the endpoints of its
\* service; 404 and 503 return here
handleRequestMatch(n, g) ==
    /\ In(n, g, "handleRequest", "match")
    /\ LET found == Matches(n, calls[n][g].arg.Host, calls[n][g].arg.Path)
       IN  IF found = {}
           THEN Respond(n, g, [status |-> 404])
           ELSE \E matched \in found :
                   LET endpoints == GetServiceEndpoints(n, matched.path.ServiceName,
                                                        matched.ingress.Namespace)
                   IN  IF endpoints.err # "" \/ endpoints.result = {}
                       THEN Respond(n, g, [status |-> 503])
                       ELSE /\ calls' = [calls EXCEPT
                                           ![n][g].pc = "Lock",
                                           ![n][g].got =
                                               [proxyKey |-> StoreKey(matched.ingress.Namespace,
                                                                      matched.path.ServiceName),
                                                service |-> serviceKey(matched.path.ServiceName,
                                                                       matched.ingress.Namespace),
                                                endpoints |-> endpoints.result]]
                            /\ mu' = mu
    /\ UNCHANGED <<now, running, nodes, registry, nextSweep, net, store, disk, pc,
                   nextSync, wrote, agentVars, api, atm, issued>>

\* handleRequest from ic.mu.Lock() on: the call first bars new readers and
\* then waits until no reader is left; with the lock it picks
\* endpoints[idx%len(endpoints)] (the slice is in map order), advances the
\* index, unlocks, keeps the proxy of the key and serves the request
handleRequestLock(n, g) ==
    /\ In(n, g, "handleRequest", "Lock")
    /\ IF mu[n].ingress.w # g
       THEN /\ CanAwaitLock(mu[n].ingress)
            /\ mu' = [mu EXCEPT ![n].ingress = AwaitLock(@, g)]
            /\ UNCHANGED <<calls, api>>
       ELSE /\ CanLock(mu[n].ingress, g)
            /\ \E id \in calls[n][g].got.endpoints :
                  LET c == calls[n][g].got
                      idx == RoundRobinIdx(api[n], c.proxyKey)
                      target == Target(n, registry[n][c.service][id])
                      proxy == IF c.proxyKey \in DOMAIN api[n].proxies
                               THEN api[n].proxies[c.proxyKey] ELSE target
                  IN  /\ api' = [api EXCEPT
                                   ![n].roundRobinIdx =
                                       MapPut(@, c.proxyKey,
                                              (idx + 1) % Cardinality(c.endpoints)),
                                   ![n].proxies = MapPut(@, c.proxyKey, proxy)]
                      /\ calls' = [calls EXCEPT
                                     ![n][g].pc = "idle",
                                     ![n][g].got = [status |-> 200, target |-> proxy]]
            /\ mu' = [mu EXCEPT ![n].ingress = RUnlock(Unlock(@), g)]
    /\ UNCHANGED <<now, running, nodes, registry, nextSweep, net, store, disk, pc,
                   nextSync, wrote, agentVars, atm, issued>>

\* AddIngress and RemoveIngress: ic.mu.Lock() up to its wait for the readers
IngressAwaitLock(n, g) ==
    /\ n \in running
    /\ calls[n][g].op \in {"AddIngress", "RemoveIngress"}
    /\ calls[n][g].pc = "call"
    /\ CanAwaitLock(mu[n].ingress)
    /\ mu' = [mu EXCEPT ![n].ingress = AwaitLock(@, g)]
    /\ calls' = [calls EXCEPT ![n][g].pc = "Lock"]
    /\ UNCHANGED <<now, running, nodes, registry, nextSweep, net, store, disk, pc,
                   nextSync, wrote, agentVars, api, atm, issued>>

\* AddIngress and RemoveIngress with the lock, up to the deferred Unlock
IngressLocked(n, g) ==
    /\ n \in running
    /\ calls[n][g].op \in {"AddIngress", "RemoveIngress"}
    /\ calls[n][g].pc = "Lock"
    /\ CanLock(mu[n].ingress, g)
    /\ LET key == StoreKey(calls[n][g].arg.Namespace, calls[n][g].arg.Name)
       IN  api' = [api EXCEPT ![n] =
                     IF calls[n][g].op = "AddIngress"
                     THEN [@ EXCEPT !.rules = MapPut(@, key, calls[n][g].arg)]
                     ELSE [@ EXCEPT !.rules = MapDelete(@, key),
                                    !.proxies = MapDelete(@, key)]]
    /\ mu' = [mu EXCEPT ![n].ingress = Unlock(@)]
    /\ calls' = [calls EXCEPT ![n][g].pc = "idle"]
    /\ UNCHANGED <<now, running, nodes, registry, nextSweep, net, store, disk, pc,
                   nextSync, wrote, agentVars, atm, issued>>

\* What goroutine g of agent n does next in the ingress call it is in
IngressStep(n, g) ==
    \/ handleRequestRLock(n, g)
    \/ handleRequestMatch(n, g)
    \/ handleRequestLock(n, g)
    \/ IngressAwaitLock(n, g)
    \/ IngressLocked(n, g)

\* The Ingress objects of this specification: example.com sends /a to db
\* and the rest to web; the other serves every host from web
RoutedIngresses ==
    { [Name |-> "site", Namespace |-> "default",
       Rules |-> <<[Host |-> "example.com",
                    Paths |-> <<[Path |-> <<"/", "a">>, PathType |-> "Exact",
                                 ServiceName |-> "db", ServicePort |-> 80],
                                [Path |-> <<"/">>, PathType |-> "Prefix",
                                 ServiceName |-> "web", ServicePort |-> 80]>>]>>],
      [Name |-> "any", Namespace |-> "default",
       Rules |-> <<[Host |-> "",
                    Paths |-> <<[Path |-> << >>, PathType |-> "",
                                 ServiceName |-> "web", ServicePort |-> 80]>>]>>] }

\* The requests: c.Request.Host and c.Request.URL.Path
Requests ==
    [Host : {"example.com", "other.org"}, Path : {<<"/">>, <<"/", "a">>}]

\* g1 is a goroutine of the HTTP server, g2 a handler of the API server
NextIngress ==
    \/ \E req \in Requests : Call("node-1", "g1", "handleRequest", req)
    \/ \E x \in RoutedIngresses : Call("node-1", "g2", "AddIngress", x)
    \/ \E x \in RoutedIngresses : Call("node-1", "g2", "RemoveIngress", x)
    \/ \E g \in Goroutines : IngressStep("node-1", g)
    \/ \E s \in DiscoveryServices, p \in PodObjs :
          net = {} /\ RegisterService("node-1", s, p)
    \/ PacketsLeave
    \/ StoreTick

FairIngress == \A g \in Goroutines : WF_vars(IngressStep("node-1", g))

SpecIngress == InitStore /\ [][NextIngress]_vars /\ FairIngress

(* C39: an ingress request that matches a rule whose service has a fresh
   endpoint ends with a proxied response, handleRequest never waits forever
   on the lock of the controller, and every AddIngress and RemoveIngress
   completes. *)
C39_MatchedRequestIsProxied ==
    /\ In("node-1", "g1", "handleRequest", "Lock")
          ~> (/\ calls["node-1"]["g1"].pc = "idle"
              /\ calls["node-1"]["g1"].op = "handleRequest"
              /\ calls["node-1"]["g1"].got.status = 200)
    /\ (calls["node-1"]["g2"].op \in {"AddIngress", "RemoveIngress"}
        /\ calls["node-1"]["g2"].pc # "idle")
          ~> (calls["node-1"]["g2"].pc = "idle")

-----------------------------------------------------------------------------
(* package api: AddDNSWhitelistHost and RemoveDNSWhitelistHost against the
   whitelist of the DNS server: SpecWhitelist *)

\* Server.GetWhitelist, under Server.mu: each host once, its trailing dot
\* removed (the order of the slice is the order the map is walked)
GetWhitelist(w) ==
    [enabled |-> w.Enabled, hosts |-> {TrimSuffix(host, <<".">>) : host \in w.Hosts}]

\* AddDNSWhitelistHost and RemoveDNSWhitelistHost up to the return of
\* a.dns.GetWhitelist(); a request without a host is answered 400
WhitelistHandlerGet(n, g) ==
    /\ n \in running
    /\ calls[n][g].op \in {"AddDNSWhitelistHost", "RemoveDNSWhitelistHost"}
    /\ calls[n][g].pc = "call"
    /\ calls' = [calls EXCEPT
                   ![n][g] = IF calls[n][g].arg = << >>
                             THEN [@ EXCEPT !.pc = "idle", !.got = [status |-> 400]]
                             ELSE [@ EXCEPT !.pc = "SetWhitelist",
                                            !.got = GetWhitelist(whitelist[n])]]
    /\ UNCHANGED <<now, running, nodes, registry, nextSweep, net, store, disk, pc,
                   nextSync, wrote, agentVars, api, atm, issued, mu>>

\* The hosts the handler passes to SetWhitelist
NewHosts(c) ==
    IF c.op = "AddDNSWhitelistHost" THEN c.got.hosts \cup {c.arg}
    ELSE {h \in c.got.hosts : h # c.arg}

\* The handlers from a.dns.SetWhitelist(enabled, hosts) to the 200 response
WhitelistHandlerSet(n, g) ==
    /\ n \in running
    /\ calls[n][g].op \in {"AddDNSWhitelistHost", "RemoveDNSWhitelistHost"}
    /\ calls[n][g].pc = "SetWhitelist"
    /\ whitelist' = [whitelist EXCEPT
                       ![n] = SetWhitelistTo(calls[n][g].got.enabled, NewHosts(calls[n][g]))]
    /\ calls' = [calls EXCEPT ![n][g].pc = "idle", ![n][g].got = [status |-> 200]]
    /\ UNCHANGED <<now, running, nodes, registry, nextSweep, net, store, disk, pc,
                   nextSync, wrote, tm, encryptor, keyFile, config, reply,
                   api, atm, issued, mu>>

\* The requests in hand are answered and their goroutines end
RequestsServed(n) ==
    /\ n \in running
    /\ \A g \in Goroutines : calls[n][g].pc = "idle"
    /\ \E g \in Goroutines : calls[n][g].op # ""
    /\ calls' = [calls EXCEPT ![n] = [g \in Goroutines |-> NoCall]]
    /\ UNCHANGED <<now, running, nodes, registry, nextSweep, net, store, disk, pc,
                   nextSync, wrote, agentVars, api, atm, issued, mu>>

\* The hosts the requests name; a request may name none
RequestHosts ==
    {<<"a", ".", "i", "o">>, <<"b", ".", "i", "o">>, <<"c", ".", "i", "o">>, << >>}

\* Each goroutine of the API server handles one request at a time
NextWhitelist ==
    \/ \E g \in Goroutines, host \in RequestHosts :
          calls["node-1"][g].op = "" /\ Call("node-1", g, "AddDNSWhitelistHost", host)
    \/ \E g \in Goroutines, host \in RequestHosts :
          calls["node-1"][g].op = "" /\ Call("node-1", g, "RemoveDNSWhitelistHost", host)
    \/ \E g \in Goroutines : WhitelistHandlerGet("node-1", g)
    \/ \E g \in Goroutines : WhitelistHandlerSet("node-1", g)
    \/ RequestsServed("node-1")

SpecWhitelist == InitStore /\ [][NextWhitelist]_vars

\* The request of goroutine g has been answered 200
Answered(n, g) ==
    /\ calls[n][g].op \in {"AddDNSWhitelistHost", "RemoveDNSWhitelistHost"}
    /\ calls[n][g].pc = "idle"
    /\ calls[n][g].got.status = 200

(* C40: concurrent updates of the whitelist are not lost: when a request to
   add or remove a host has been answered, and the requests handled at the
   same time name other hosts, the whitelist holds the host that was added
   and lacks the host that was removed. *)
C40_WhitelistUpdatesAreKept ==
    \A g \in Goroutines :
        (/\ Answered("node-1", g)
         /\ \A h \in Goroutines \ {g} :
               calls["node-1"][h].op # "" => calls["node-1"][h].arg # calls["node-1"][g].arg)
        => (calls["node-1"][g].arg \in GetWhitelist(whitelist["node-1"]).hosts
              <=> calls["node-1"][g].op = "AddDNSWhitelistHost")

====
